---- MODULE Spec2Model ----
(***************************************************************************)
(* Lateness tracker: the Schedule Registry (ClassManager), the Student     *)
(* Directory (StudentManager), the Arrival Ledger (ArrivalTracker), the    *)
(* reports (ReportGenerator), the key-value store (Storage) and the UI     *)
(* handlers that drive them.                                               *)
(*                                                                         *)
(* Seven specifications share the state: Spec, DirectorySpec and           *)
(* TrackerSpec start on an empty store; RegistrySpec, ReportSpec,          *)
(* BackupSpec and ScheduleSpec start on the data of an earlier session.    *)
(*                                                                         *)
(* Representation of JavaScript values:                                    *)
(*   - a string whose characters the code inspects ("HH:MM", "YYYY-MM-DD") *)
(*     is a sequence of one-character strings; '' is <<>>;                 *)
(*   - an object is a record/function whose DOMAIN is its set of own       *)
(*     properties, so a missing property is a missing field;               *)
(*   - null and undefined are the records Null and Undefined;              *)
(*   - a generated id 'cls_<unique>' is [prefix |-> "cls", n |-> k], k a   *)
(*     counter that never repeats;                                         *)
(*   - an array is a sequence; findIndex's -1 is 0 here (1-based).         *)
(* createdAt/generatedAt timestamps are written but never read by any      *)
(* operation and are left out of the records.                              *)
(***************************************************************************)
EXTENDS Integers, Sequences, FiniteSets, TLC

VARIABLES tz, phase, classes, students, arrivals, store,
          currentClassId, nextClassId, nextStudentId, nextArrivalId, last,
          bundle, currentDate

vars == <<tz, phase, classes, students, arrivals, store,
          currentClassId, nextClassId, nextStudentId, nextArrivalId, last,
          bundle, currentDate>>

(***************************************************************************)
(* Bounds                                                                  *)
(***************************************************************************)
\* number of class ids that generateId can hand out in a run
MaxClasses == 1
\* number of arrival ids that generateId can hand out in a run
MaxArrivals == 2
\* number of student ids that generateId can hand out in a run
MaxStudents == 1

(***************************************************************************)
(* JavaScript values                                                       *)
(***************************************************************************)
Null == [null |-> TRUE]
Undefined == [undefined |-> TRUE]
EmptyObject == <<>>

Has(obj, field) == field \in DOMAIN obj

\* { ...obj, ...updates }: own properties of updates win
Spread(obj, updates) ==
    [k \in (DOMAIN obj) \cup (DOMAIN updates) |->
        IF k \in DOMAIN updates THEN updates[k] ELSE obj[k]]

\* { ...obj, [key]: value }
SetProp(obj, key, value) ==
    [k \in (DOMAIN obj) \cup {key} |-> IF k = key THEN value ELSE obj[k]]

\* the indices of seq whose element satisfies a test are a set; findIndex and
\* find take the least of them, 0 when there is none
FirstIndex(matches) ==
    IF matches = {} THEN 0
    ELSE CHOOSE i \in matches : \A j \in matches : i <= j

\* Array.prototype.filter is SelectSeq of the Sequences module

\* Array.prototype.splice(index, 1)
Splice1(seq, index) ==
    SubSeq(seq, 1, index - 1) \o SubSeq(seq, index + 1, Len(seq))

(***************************************************************************)
(* Strings: split(':'), Number                                             *)
(***************************************************************************)
RECURSIVE SplitAcc(_, _, _)
SplitAcc(str, sep, cur) ==
    IF str = <<>> THEN <<cur>>
    ELSE IF Head(str) = sep THEN <<cur>> \o SplitAcc(Tail(str), sep, <<>>)
         ELSE SplitAcc(Tail(str), sep, Append(cur, Head(str)))

\* String.prototype.split(sep) for a one-character separator
Split(str, sep) == SplitAcc(str, sep, <<>>)

DigitVal(c) ==
    CASE c = "0" -> 0 [] c = "1" -> 1 [] c = "2" -> 2 [] c = "3" -> 3
      [] c = "4" -> 4 [] c = "5" -> 5 [] c = "6" -> 6 [] c = "7" -> 7
      [] c = "8" -> 8 [] c = "9" -> 9

RECURSIVE NumberAcc(_, _)
NumberAcc(str, acc) ==
    IF str = <<>> THEN acc
    ELSE NumberAcc(Tail(str), acc * 10 + DigitVal(Head(str)))

\* Number(str) for a string of decimal digits (Number('') is 0)
Number(str) == NumberAcc(str, 0)

(***************************************************************************)
(* Dates: new Date('YYYY-MM-DD').getDay()                                  *)
(***************************************************************************)
\* days from 1970-01-01 to the civil date y-m-d (proleptic Gregorian)
DaysFromCivil(y, m, d) ==
    LET yy  == IF m <= 2 THEN y - 1 ELSE y
        era == yy \div 400
        yoe == yy - era * 400
        mp  == IF m > 2 THEN m - 3 ELSE m + 9
        doy == (153 * mp + 2) \div 5 + d - 1
        doe == yoe * 365 + yoe \div 4 - yoe \div 100 + doy
    IN era * 146097 + doe - 719468

\* Date.parse of a date-only ISO string: midnight UTC of that day, here in
\* hours since the epoch (the source's milliseconds, scaled to fit 32 bits)
DateParse(date) ==
    LET parts == Split(date, "-")
    IN 24 * DaysFromCivil(Number(parts[1]), Number(parts[2]), Number(parts[3]))

\* Date.prototype.getDay: the weekday (0 = Sunday) of the instant in the
\* local time zone, offset hours east of UTC; 1970-01-01 was a Thursday
GetDay(utcHours, offset) == (((utcHours + offset) \div 24) + 4) % 7

(***************************************************************************)
(* Inputs                                                                  *)
(***************************************************************************)
T0800 == <<"0", "8", ":", "0", "0">>
T1200 == <<"1", "2", ":", "0", "0">>
T1230 == <<"1", "2", ":", "3", "0">>
T1245 == <<"1", "2", ":", "4", "5">>
T1420 == <<"1", "4", ":", "2", "0">>

\* 2024-03-04 and 2024-03-11 are Mondays
D0304 == <<"2", "0", "2", "4", "-", "0", "3", "-", "0", "4">>
D0311 == <<"2", "0", "2", "4", "-", "0", "3", "-", "1", "1">>

\* the browser's time zone, in hours east of UTC
TZOffsets == {-5, 1}
\* arrival times a caller supplies
TimeInputs == {T1230, T1245}
\* readings of the wall clock, as toTimeString().substr(0, 5) gives them
ClockReadings == {T1245}
Dates == {D0304, D0311}
Stu1 == [prefix |-> "stu", n |-> 1]
Stu2 == [prefix |-> "stu", n |-> 2]
StudentIds == {Stu1, Stu2}
\* the (studentId, date) pairs the ledger is called with
ArrivalKeys == (StudentIds \X Dates) \ {<<Stu2, D0311>>}
ClassNames == {"1AEP"}
ClassIds == {[prefix |-> "cls", n |-> k] : k \in 1..MaxClasses}
\* the weekdays whose entry the schedule screen is used on
EditDays == {"monday"}
\* values typed into a time field of the schedule screen ('' clears it)
ScheduleFieldInputs == {<<>>, T1245}

(***************************************************************************)
(* Storage (src/js/utils/Storage.js). The store maps each key that was set *)
(* to the value JSON.parse gives back for what JSON.stringify wrote; every *)
(* value the model writes is plain JSON data, which that pair preserves.   *)
(***************************************************************************)
\* Storage.set leaving an empty value under the key when setItem throws
Storage_set_emptiesOnFailure(st, key, data, ok) ==
    [store |-> IF ok THEN SetProp(st, key, data) ELSE SetProp(st, key, <<>>),
     ret |-> ok]

\* localStorage.setItem throwing (quota) is the input ok = FALSE
Storage_set(st, key, data, ok) ==
    [store |-> IF ok THEN SetProp(st, key, data) ELSE st, ret |-> ok]

Storage_get(st, key, defaultValue) ==
    IF Has(st, key) THEN st[key] ELSE defaultValue

\* outcomes of localStorage.setItem in a browser whose quota is not reached
WriteOutcomes == {TRUE}

(***************************************************************************)
(* ClassManager (Schedule Registry)                                        *)
(***************************************************************************)
generateId(prefix, n) == [prefix |-> prefix, n |-> n]

defaultSchedule ==
    [monday    |-> [enabled |-> TRUE, startTime |-> T1230, endTime |-> T1420],
     tuesday   |-> [enabled |-> TRUE, startTime |-> T1230, endTime |-> T1420],
     wednesday |-> [enabled |-> TRUE, startTime |-> T1230, endTime |-> T1420],
     thursday  |-> [enabled |-> TRUE, startTime |-> T1230, endTime |-> T1420],
     friday    |-> [enabled |-> TRUE, startTime |-> T1230, endTime |-> T1420],
     saturday  |-> [enabled |-> TRUE, startTime |-> T1230, endTime |-> T1420],
     sunday    |-> [enabled |-> FALSE]]

ClassManager_getById(cls, id) ==
    LET i == FirstIndex({k \in 1..Len(cls) : cls[k].id = id})
    IN IF i = 0 THEN Null ELSE cls[i]

\* add(name, schedule = {}): an omitted schedule is the default parameter {},
\* and `schedule || this.defaultSchedule()` replaces only a falsy one
ClassManager_add(cls, n, name, schedule) ==
    LET param    == IF schedule = Undefined THEN EmptyObject ELSE schedule
        newClass == [id       |-> generateId("cls", n),
                     name     |-> name,
                     schedule |-> IF param = Null THEN defaultSchedule ELSE param]
    IN [classes |-> Append(cls, newClass), ret |-> newClass, saved |-> TRUE]

\* ClassManager_update merging a supplied schedule day by day into the old one
ClassManager_update_mergesDays(cls, id, updates) ==
    LET index == FirstIndex({k \in 1..Len(cls) : cls[k].id = id})
        deep  == IF Has(updates, "schedule")
                 THEN SetProp(updates, "schedule",
                              Spread(cls[index].schedule, updates.schedule))
                 ELSE updates
    IN IF index # 0
       THEN LET merged == [cls EXCEPT ![index] = Spread(cls[index], deep)]
            IN [classes |-> merged, ret |-> merged[index], saved |-> TRUE]
       ELSE [classes |-> cls, ret |-> Null, saved |-> FALSE]

ClassManager_update(cls, id, updates) ==
    LET index == FirstIndex({k \in 1..Len(cls) : cls[k].id = id})
    IN IF index # 0
       THEN LET merged == [cls EXCEPT ![index] = Spread(cls[index], updates)]
            IN [classes |-> merged, ret |-> merged[index], saved |-> TRUE]
       ELSE [classes |-> cls, ret |-> Null, saved |-> FALSE]

ClassManager_delete(cls, id) ==
    [classes |-> SelectSeq(cls, LAMBDA c : c.id # id),
     ret |-> Undefined, saved |-> TRUE]

dayNames ==
    <<"sunday", "monday", "tuesday", "wednesday", "thursday", "friday", "saturday">>

ClassManager_getScheduleForDay(cls, classId, dayOfWeek) ==
    LET classObj == ClassManager_getById(cls, classId)
        dayName  == dayNames[dayOfWeek + 1]
    IN IF classObj = Null THEN Null
       ELSE IF Has(classObj.schedule, dayName) THEN classObj.schedule[dayName]
            ELSE Null

(***************************************************************************)
(* ArrivalTracker (Arrival Ledger)                                         *)
(***************************************************************************)
Max(a, b) == IF a >= b THEN a ELSE b

\* Lateness without Math.max: an arrival before the start is late by a
\* negative number of minutes
Lateness_signed(schedule, arrivalTime) ==
    IF /\ schedule # Null
       /\ Has(schedule, "enabled") /\ schedule.enabled
       /\ Has(schedule, "startTime") /\ schedule.startTime # <<>>
    THEN LET sched           == Split(schedule.startTime, ":")
             arr             == Split(arrivalTime, ":")
             scheduleMinutes == Number(sched[1]) * 60 + Number(sched[2])
             arrivalMinutes  == Number(arr[1]) * 60 + Number(arr[2])
             minutesLate     == arrivalMinutes - scheduleMinutes
         IN [minutesLate |-> minutesLate,
             status      |-> IF minutesLate > 0 THEN "late" ELSE "on-time"]
    ELSE [minutesLate |-> 0, status |-> "on-time"]

\* the classification step of markArrival
Lateness(schedule, arrivalTime) ==
    IF /\ schedule # Null
       /\ Has(schedule, "enabled") /\ schedule.enabled
       /\ Has(schedule, "startTime") /\ schedule.startTime # <<>>
    THEN LET sched           == Split(schedule.startTime, ":")
             arr             == Split(arrivalTime, ":")
             scheduleMinutes == Number(sched[1]) * 60 + Number(sched[2])
             arrivalMinutes  == Number(arr[1]) * 60 + Number(arr[2])
             minutesLate     == Max(0, arrivalMinutes - scheduleMinutes)
         IN [minutesLate |-> minutesLate,
             status      |-> IF minutesLate > 0 THEN "late" ELSE "on-time"]
    ELSE [minutesLate |-> 0, status |-> "on-time"]

\* markArrival_existing with the record's id compared in place of its
\* studentId, so that no stored Arrival ever matches
markArrival_existing_wrongField(arr, studentId, date) ==
    FirstIndex({k \in 1..Len(arr) : arr[k].id = studentId /\ arr[k].date = date})

\* the duplicate check of markArrival: the index of the stored Arrival of
\* (studentId, date), 0 when there is none
markArrival_existing(arr, studentId, date) ==
    FirstIndex({k \in 1..Len(arr) :
                   arr[k].studentId = studentId /\ arr[k].date = date})

\* markArrival_rejected dropping the stored Arrival, as a toggle would
markArrival_rejected_drops(arr, i) ==
    [arrivals |-> Splice1(arr, i), saved |-> TRUE,
     ret |-> [success |-> FALSE, message |-> "Already marked", arrival |-> arr[i]]]

\* markArrival_rejected returning the message without the stored Arrival
markArrival_rejected_bare(arr, i) ==
    [arrivals |-> arr, saved |-> FALSE,
     ret |-> [success |-> FALSE, message |-> "Already marked"]]

\* markArrival_rejected writing an on-time verdict into the stored Arrival
markArrival_rejected_overwrites(arr, i) ==
    [arrivals |-> [arr EXCEPT ![i].minutesLate = 0, ![i].status = "on-time"],
     saved |-> TRUE,
     ret |-> [success |-> FALSE, message |-> "Already marked", arrival |-> arr[i]]]

\* the rejection of markArrival
markArrival_rejected(arr, i) ==
    [arrivals |-> arr, saved |-> FALSE,
     ret |-> [success |-> FALSE, message |-> "Already marked", arrival |-> arr[i]]]

\* the creation of markArrival; time is Null when the caller leaves it out,
\* now is the wall clock's HH:MM
markArrival_created(arr, cls, n, offset, studentId, classId, date, time, now) ==
    LET arrivalTime == IF time = Null \/ time = <<>> THEN now ELSE time
        dayOfWeek   == GetDay(DateParse(date), offset)
        schedule    == ClassManager_getScheduleForDay(cls, classId, dayOfWeek)
        verdict     == Lateness(schedule, arrivalTime)
        arrival     == [id          |-> generateId("arr", n),
                        studentId   |-> studentId,
                        classId     |-> classId,
                        date        |-> date,
                        time        |-> arrivalTime,
                        minutesLate |-> verdict.minutesLate,
                        status      |-> verdict.status]
    IN [arrivals |-> Append(arr, arrival), saved |-> TRUE,
        ret |-> [success |-> TRUE, arrival |-> arrival]]

ArrivalTracker_markArrival(arr, cls, n, offset, studentId, classId, date, time, now) ==
    LET i == markArrival_existing(arr, studentId, date)
    IN IF i # 0 THEN markArrival_rejected(arr, i)
       ELSE markArrival_created(arr, cls, n, offset, studentId, classId, date,
                                time, now)

\* removeArrival with splice(index, 0): it reports a removal and removes nothing
removeArrival_keeps(arr, studentId, date) ==
    LET index == FirstIndex({k \in 1..Len(arr) :
                                arr[k].studentId = studentId /\ arr[k].date = date})
    IN IF index # 0
       THEN [arrivals |-> arr, saved |-> TRUE, ret |-> TRUE]
       ELSE [arrivals |-> arr, saved |-> FALSE, ret |-> FALSE]

\* removeArrival filtering out every Arrival of the student
removeArrival_byStudent(arr, studentId, date) ==
    LET index == FirstIndex({k \in 1..Len(arr) :
                                arr[k].studentId = studentId /\ arr[k].date = date})
    IN IF index # 0
       THEN [arrivals |-> SelectSeq(arr, LAMBDA a : a.studentId # studentId),
             saved |-> TRUE, ret |-> TRUE]
       ELSE [arrivals |-> arr, saved |-> FALSE, ret |-> FALSE]

ArrivalTracker_removeArrival(arr, studentId, date) ==
    LET index == FirstIndex({k \in 1..Len(arr) :
                                arr[k].studentId = studentId /\ arr[k].date = date})
    IN IF index # 0
       THEN [arrivals |-> Splice1(arr, index), saved |-> TRUE, ret |-> TRUE]
       ELSE [arrivals |-> arr, saved |-> FALSE, ret |-> FALSE]

\* hasArrived looking the student up without the date
hasArrived_byStudent(arr, studentId, date) ==
    LET i == FirstIndex({k \in 1..Len(arr) : arr[k].studentId = studentId})
    IN IF i = 0 THEN Null ELSE arr[i]

ArrivalTracker_hasArrived(arr, studentId, date) ==
    LET i == FirstIndex({k \in 1..Len(arr) :
                            arr[k].studentId = studentId /\ arr[k].date = date})
    IN IF i = 0 THEN Null ELSE arr[i]

(***************************************************************************)
(* UI (the handlers that reach the registry)                               *)
(***************************************************************************)
\* showClassSelector: with classes to show and none selected, the first one
\* is selected
UI_showClassSelector(cls, current) ==
    IF Len(cls) = 0 THEN current
    ELSE IF current = Null THEN cls[1].id ELSE current

\* classObj.schedule[day]?.enabled || false, as toggleDay and the schedule
\* screen read a day's flag
UI_dayEnabled(classObj, day) ==
    /\ Has(classObj.schedule, day)
    /\ Has(classObj.schedule[day], "enabled")
    /\ classObj.schedule[day].enabled

\* toggleDay handing over the named day alone, without the other days
UI_toggleDay_alone(classObj, day) ==
    [schedule |->
        SetProp(EmptyObject, day,
                IF UI_dayEnabled(classObj, day) THEN [enabled |-> FALSE]
                ELSE [enabled |-> TRUE, startTime |-> T0800, endTime |-> T1200])]

\* the schedule toggleDay(day) hands to ClassManager.update
UI_toggleDay(classObj, day) ==
    LET current == UI_dayEnabled(classObj, day)
    IN [schedule |->
           SetProp(classObj.schedule, day,
                   IF current THEN [enabled |-> FALSE]
                   ELSE [enabled |-> TRUE, startTime |-> T0800, endTime |-> T1200])]

\* the schedule updateSchedule(day, field, value) hands to ClassManager.update
UI_updateSchedule(classObj, day, field, value) ==
    LET entry == IF Has(classObj.schedule, day) THEN classObj.schedule[day]
                 ELSE EmptyObject
    IN [schedule |-> SetProp(classObj.schedule, day, SetProp(entry, field, value))]

(***************************************************************************)
(* Text.  A text the code builds but does not inspect is a sequence of     *)
(* pieces, strings whose concatenation is the text; a literal of the code  *)
(* is one piece, and no piece but "\n" holds a line break.                 *)
(***************************************************************************)
\* the UTF-16 code unit of a character of a date string
CharCode(c) == IF c = "-" THEN 45 ELSE 48 + DigitVal(c)

\* the relational comparison of two strings (<, <=, >, >=): by code units,
\* a proper prefix first; -1, 0 or 1
RECURSIVE StrCompare(_, _)
StrCompare(a, b) ==
    IF a = <<>> THEN (IF b = <<>> THEN 0 ELSE -1)
    ELSE IF b = <<>> THEN 1
    ELSE IF Head(a) = Head(b) THEN StrCompare(Tail(a), Tail(b))
    ELSE IF CharCode(Head(a)) < CharCode(Head(b)) THEN -1 ELSE 1

DigitChar(d) == <<"0", "1", "2", "3", "4", "5", "6", "7", "8", "9">>[d + 1]

\* String(n) for an integer n >= 0, character by character
RECURSIVE String(_)
String(n) ==
    IF n < 10 THEN <<DigitChar(n)>>
    ELSE Append(String(n \div 10), DigitChar(n % 10))

\* String.prototype.padStart(targetLength, padChar)
RECURSIVE PadStart(_, _, _)
PadStart(str, targetLength, padChar) ==
    IF Len(str) >= targetLength THEN str
    ELSE PadStart(<<padChar>> \o str, targetLength, padChar)

WhiteSpace == {" ", "\t", "\n"}

RECURSIVE TrimStart(_)
TrimStart(str) ==
    IF str # <<>> /\ Head(str) \in WhiteSpace THEN TrimStart(Tail(str)) ELSE str

RECURSIVE TrimEnd(_)
TrimEnd(str) ==
    IF str # <<>> /\ str[Len(str)] \in WhiteSpace
    THEN TrimEnd(SubSeq(str, 1, Len(str) - 1)) ELSE str

\* String.prototype.trim
Trim(str) == TrimEnd(TrimStart(str))

\* Array.prototype.join(sep) of an array of texts
RECURSIVE Join(_, _)
Join(lines, sep) ==
    IF lines = <<>> THEN <<>>
    ELSE IF Len(lines) = 1 THEN lines[1]
    ELSE lines[1] \o <<sep>> \o Join(Tail(lines), sep)

(***************************************************************************)
(* String.prototype.localeCompare on names: letters compare by their place *)
(* in the alphabet whatever their case, a space comes before every letter, *)
(* and two names that differ only by case put the lower case first.        *)
(***************************************************************************)
LowerCase ==
    <<"a", "b", "c", "d", "e", "f", "g", "h", "i", "j", "k", "l", "m",
      "n", "o", "p", "q", "r", "s", "t", "u", "v", "w", "x", "y", "z">>
UpperCase ==
    <<"A", "B", "C", "D", "E", "F", "G", "H", "I", "J", "K", "L", "M",
      "N", "O", "P", "Q", "R", "S", "T", "U", "V", "W", "X", "Y", "Z">>

\* the primary weight of a character: 0 for what is not a letter
Primary(c) ==
    IF \E i \in 1..26 : LowerCase[i] = c \/ UpperCase[i] = c
    THEN CHOOSE i \in 1..26 : LowerCase[i] = c \/ UpperCase[i] = c
    ELSE 0

\* the tertiary weight of a character: upper case after lower case
Tertiary(c) == IF \E i \in 1..26 : UpperCase[i] = c THEN 1 ELSE 0

RECURSIVE CompareBy(_, _, _)
CompareBy(a, b, level) ==
    LET weight(c) == IF level = 1 THEN Primary(c) ELSE Tertiary(c)
    IN IF a = <<>> THEN (IF b = <<>> THEN 0 ELSE -1)
       ELSE IF b = <<>> THEN 1
       ELSE IF weight(Head(a)) = weight(Head(b))
            THEN CompareBy(Tail(a), Tail(b), level)
       ELSE IF weight(Head(a)) < weight(Head(b)) THEN -1 ELSE 1

LocaleCompare(a, b) ==
    IF CompareBy(a, b, 1) # 0 THEN CompareBy(a, b, 1) ELSE CompareBy(a, b, 2)

\* SortByName leaving the rows in the order of the directory
SortByName_asStored(rows) == rows

\* Array.prototype.sort((a, b) => a.name.localeCompare(b.name)); the sort is
\* stable: rows of equal names keep their order
RECURSIVE SortByName(_)
SortByName(rows) ==
    IF rows = <<>> THEN <<>>
    ELSE LET front  == SortByName(SubSeq(rows, 1, Len(rows) - 1))
             x      == rows[Len(rows)]
             before == {k \in 1..Len(front) :
                           LocaleCompare(front[k].name, x.name) <= 0}
             at     == IF before = {} THEN 0
                       ELSE CHOOSE k \in before : \A j \in before : j <= k
         IN SubSeq(front, 1, at) \o <<x>> \o SubSeq(front, at + 1, Len(front))

(***************************************************************************)
(* Dates: new Date(year, monthIndex, day).toISOString()                    *)
(***************************************************************************)
\* the civil date of the day that is z days after 1970-01-01
CivilFromDays(z) ==
    LET zz  == z + 719468
        era == zz \div 146097
        doe == zz - era * 146097
        yoe == (doe - doe \div 1460 + doe \div 36524 - doe \div 146096) \div 365
        doy == doe - (365 * yoe + yoe \div 4 - yoe \div 100)
        mp  == (5 * doy + 2) \div 153
        d   == doy - (153 * mp + 2) \div 5 + 1
        m   == IF mp < 10 THEN mp + 3 ELSE mp - 9
    IN [year |-> yoe + era * 400 + (IF m <= 2 THEN 1 ELSE 0), month |-> m, day |-> d]

\* new Date(year, monthIndex, day): midnight, local time, of the day that is
\* day - 1 days after the first of the month monthIndex (0 = January; 12 is
\* January of the next year) of the year; in hours since the epoch
DateLocal(year, monthIndex, day, offset) ==
    24 * (DaysFromCivil(year + monthIndex \div 12, (monthIndex % 12) + 1, 1)
          + day - 1) - offset

\* Date.prototype.toISOString: the instant in UTC, YYYY-MM-DDTHH:mm:ss.sssZ
ToISOString(utcHours) ==
    LET civil == CivilFromDays(utcHours \div 24)
    IN PadStart(String(civil.year), 4, "0") \o <<"-">>
       \o PadStart(String(civil.month), 2, "0") \o <<"-">>
       \o PadStart(String(civil.day), 2, "0") \o <<"T">>
       \o PadStart(String(utcHours % 24), 2, "0")
       \o <<":", "0", "0", ":", "0", "0", ".", "0", "0", "0", "Z">>

\* toLocaleString('default', { month: 'long' }) in an English locale
monthNames ==
    <<"January", "February", "March", "April", "May", "June", "July",
      "August", "September", "October", "November", "December">>

\* Math.round(n / d) for n >= 0 and d > 0: halves go up
MathRound(n, d) == (2 * n + d) \div (2 * d)

(***************************************************************************)
(* StudentManager (Student Directory)                                      *)
(***************************************************************************)
StudentManager_getByClass(stu, classId) ==
    SelectSeq(stu, LAMBDA s : s.classId = classId)

StudentManager_add(stu, n, name, classId, photoUrl) ==
    LET student == [id       |-> generateId("stu", n),
                    name     |-> Trim(name),
                    classId  |-> classId,
                    photoUrl |-> photoUrl]
    IN [students |-> Append(stu, student), ret |-> student, saved |-> TRUE]

StudentManager_update(stu, id, updates) ==
    LET index == FirstIndex({k \in 1..Len(stu) : stu[k].id = id})
    IN IF index # 0
       THEN LET merged == [stu EXCEPT ![index] = Spread(stu[index], updates)]
            IN [students |-> merged, ret |-> merged[index], saved |-> TRUE]
       ELSE [students |-> stu, ret |-> Null, saved |-> FALSE]

StudentManager_getSortedByName(stu, classId) ==
    SortByName(StudentManager_getByClass(stu, classId))

(***************************************************************************)
(* ArrivalTracker: the rollups                                             *)
(***************************************************************************)
\* a date bound that was given: not null and not ''
Given(bound) == bound # Null /\ bound # <<>>

\* InRange leaving out the arrivals dated on the end date itself
InRange_exclusiveEnd(arr, startDate, endDate) ==
    LET fromStart == IF Given(startDate)
                     THEN SelectSeq(arr, LAMBDA a : StrCompare(a.date, startDate) >= 0)
                     ELSE arr
    IN IF Given(endDate)
       THEN SelectSeq(fromStart, LAMBDA a : StrCompare(a.date, endDate) < 0)
       ELSE fromStart

\* the two range filters of getStudentStats and getClassStats
InRange(arr, startDate, endDate) ==
    LET fromStart == IF Given(startDate)
                     THEN SelectSeq(arr, LAMBDA a : StrCompare(a.date, startDate) >= 0)
                     ELSE arr
    IN IF Given(endDate)
       THEN SelectSeq(fromStart, LAMBDA a : StrCompare(a.date, endDate) <= 0)
       ELSE fromStart

\* reduce((sum, a) => sum + a.minutesLate, 0)
RECURSIVE SumMinutesLate(_)
SumMinutesLate(arr) ==
    IF arr = <<>> THEN 0
    ELSE arr[1].minutesLate + SumMinutesLate(Tail(arr))

\* getStudentStats counting every arrival of the range as on time
getStudentStats_onTimeCountsAll(arr, studentId, startDate, endDate) ==
    LET filtered == InRange(SelectSeq(arr, LAMBDA a : a.studentId = studentId),
                            startDate, endDate)
        tardies  == Len(SelectSeq(filtered, LAMBDA a : a.status = "late"))
        totalMinutesLate == SumMinutesLate(filtered)
    IN [totalArrivals    |-> Len(filtered),
        onTime           |-> Len(filtered),
        tardies          |-> tardies,
        totalMinutesLate |-> totalMinutesLate,
        avgMinutesLate   |-> IF tardies > 0 THEN MathRound(totalMinutesLate, tardies)
                             ELSE 0]

ArrivalTracker_getStudentStats(arr, studentId, startDate, endDate) ==
    LET filtered == InRange(SelectSeq(arr, LAMBDA a : a.studentId = studentId),
                            startDate, endDate)
        tardies  == Len(SelectSeq(filtered, LAMBDA a : a.status = "late"))
        onTime   == Len(SelectSeq(filtered, LAMBDA a : a.status = "on-time"))
        totalMinutesLate == SumMinutesLate(filtered)
    IN [totalArrivals    |-> Len(filtered),
        onTime           |-> onTime,
        tardies          |-> tardies,
        totalMinutesLate |-> totalMinutesLate,
        avgMinutesLate   |-> IF tardies > 0 THEN MathRound(totalMinutesLate, tardies)
                             ELSE 0]

\* getClassStats taking the rate of the late arrivals to the on-time ones
getClassStats_lateToOnTime(arr, classId, startDate, endDate) ==
    LET filtered == InRange(SelectSeq(arr, LAMBDA a : a.classId = classId),
                            startDate, endDate)
        tardies  == Len(SelectSeq(filtered, LAMBDA a : a.status = "late"))
        onTime   == Len(SelectSeq(filtered, LAMBDA a : a.status = "on-time"))
    IN [totalArrivals |-> Len(filtered),
        onTime        |-> onTime,
        tardies       |-> tardies,
        latenessRate  |-> IF onTime > 0 THEN MathRound(tardies * 100, onTime)
                          ELSE 0]

\* Math.round((tardies / filtered.length) * 100), in exact arithmetic
ArrivalTracker_getClassStats(arr, classId, startDate, endDate) ==
    LET filtered == InRange(SelectSeq(arr, LAMBDA a : a.classId = classId),
                            startDate, endDate)
        tardies  == Len(SelectSeq(filtered, LAMBDA a : a.status = "late"))
        onTime   == Len(SelectSeq(filtered, LAMBDA a : a.status = "on-time"))
    IN [totalArrivals |-> Len(filtered),
        onTime        |-> onTime,
        tardies       |-> tardies,
        latenessRate  |-> IF Len(filtered) > 0
                          THEN MathRound(tardies * 100, Len(filtered))
                          ELSE 0]

(***************************************************************************)
(* ReportGenerator.  It reads the classes and the students from the        *)
(* managers and the arrivals from the store.                               *)
(***************************************************************************)
\* the first day of the month, as generateMonthlyReport writes it
monthlyReport_startDate(year, month) ==
    String(year) \o <<"-">> \o PadStart(String(month), 2, "0") \o <<"-", "0", "1">>

\* the last day of the month, as generateMonthlyReport writes it: the UTC
\* date of the local midnight that begins day 0 of the next month
monthlyReport_endDate(year, month, offset) ==
    Split(ToISOString(DateLocal(year, month, 0, offset)), "T")[1]

\* monthlyReport_row averaging over the days present and not over the late ones
monthlyReport_row_avgOverDays(st, student, startDate, endDate) ==
    LET arr     == SelectSeq(Storage_get(st, "arrivals", <<>>),
                             LAMBDA a : /\ a.studentId = student.id
                                        /\ StrCompare(a.date, startDate) >= 0
                                        /\ StrCompare(a.date, endDate) <= 0)
        tardies == SelectSeq(arr, LAMBDA a : a.status = "late")
        totalMinutesLate == SumMinutesLate(tardies)
    IN [id               |-> student.id,
        name             |-> student.name,
        photoUrl         |-> student.photoUrl,
        totalDays        |-> Len(arr),
        onTime           |-> Len(SelectSeq(arr, LAMBDA a : a.status = "on-time")),
        tardies          |-> Len(tardies),
        totalMinutesLate |-> totalMinutesLate,
        avgMinutesLate   |-> IF Len(tardies) > 0
                             THEN MathRound(totalMinutesLate, Len(arr))
                             ELSE 0,
        arrivals         |-> [i \in 1..Len(arr) |->
                                 [date        |-> arr[i].date,
                                  time        |-> arr[i].time,
                                  minutesLate |-> arr[i].minutesLate]]]

\* the row generateMonthlyReport pushes for a student
monthlyReport_row(st, student, startDate, endDate) ==
    LET arr     == SelectSeq(Storage_get(st, "arrivals", <<>>),
                             LAMBDA a : /\ a.studentId = student.id
                                        /\ StrCompare(a.date, startDate) >= 0
                                        /\ StrCompare(a.date, endDate) <= 0)
        tardies == SelectSeq(arr, LAMBDA a : a.status = "late")
        totalMinutesLate == SumMinutesLate(tardies)
    IN [id               |-> student.id,
        name             |-> student.name,
        photoUrl         |-> student.photoUrl,
        totalDays        |-> Len(arr),
        onTime           |-> Len(SelectSeq(arr, LAMBDA a : a.status = "on-time")),
        tardies          |-> Len(tardies),
        totalMinutesLate |-> totalMinutesLate,
        avgMinutesLate   |-> IF Len(tardies) > 0
                             THEN MathRound(totalMinutesLate, Len(tardies))
                             ELSE 0,
        arrivals         |-> [i \in 1..Len(arr) |->
                                 [date        |-> arr[i].date,
                                  time        |-> arr[i].time,
                                  minutesLate |-> arr[i].minutesLate]]]

ReportGenerator_generateMonthlyReport(cls, stu, st, offset, classId, year, month) ==
    LET classObj  == ClassManager_getById(cls, classId)
        ofClass   == StudentManager_getByClass(stu, classId)
        startDate == monthlyReport_startDate(year, month)
        endDate   == monthlyReport_endDate(year, month, offset)
    IN IF classObj = Null THEN Null
       ELSE [classId   |-> classId,
             className |-> classObj.name,
             year      |-> year,
             month     |-> month,
             monthName |-> monthNames[month],
             students  |-> SortByName(
                 [i \in 1..Len(ofClass) |->
                     monthlyReport_row(st, ofClass[i], startDate, endDate)])]

\* the line generateCSV pushes for a student row
generateCSV_row(s) ==
    s.name \o <<",", ToString(s.totalDays), ",", ToString(s.tardies), ",",
                ToString(s.totalMinutesLate), ",", ToString(s.avgMinutesLate)>>

RECURSIVE SumField(_, _)
SumField(rows, field) ==
    IF rows = <<>> THEN 0
    ELSE rows[1][field] + SumField(Tail(rows), field)

\* generateCSV_summary averaging over the days present and not over the tardies
generateCSV_summary_overDays(report) ==
    LET totalDays    == SumField(report.students, "totalDays")
        totalTardies == SumField(report.students, "tardies")
        totalMinutes == SumField(report.students, "totalMinutesLate")
    IN <<"Total,", ToString(totalDays), ",", ToString(totalTardies), ",",
         ToString(totalMinutes), ",",
         ToString(IF totalTardies > 0 THEN MathRound(totalMinutes, totalDays)
                  ELSE 0)>>

\* the summary line of generateCSV
generateCSV_summary(report) ==
    LET totalDays    == SumField(report.students, "totalDays")
        totalTardies == SumField(report.students, "tardies")
        totalMinutes == SumField(report.students, "totalMinutesLate")
    IN <<"Total,", ToString(totalDays), ",", ToString(totalTardies), ",",
         ToString(totalMinutes), ",",
         ToString(IF totalTardies > 0 THEN MathRound(totalMinutes, totalTardies)
                  ELSE 0)>>

\* generateCSV without the empty line that precedes the summary
generateCSV_noEmptyLine(report) ==
    LET header == <<<<"Rapport de retards - ", report.className, " - ",
                      report.monthName, " ", ToString(report.year)>>,
                    <<>>,
                    <<"Nom,Délais,Retards,Minutes de retard, Moyenne">>>>
        rows   == [i \in 1..Len(report.students) |->
                      generateCSV_row(report.students[i])]
    IN Join(header \o rows \o <<generateCSV_summary(report)>>, "\n")

ReportGenerator_generateCSV(report) ==
    LET header == <<<<"Rapport de retards - ", report.className, " - ",
                      report.monthName, " ", ToString(report.year)>>,
                    <<>>,
                    <<"Nom,Délais,Retards,Minutes de retard, Moyenne">>>>
        rows   == [i \in 1..Len(report.students) |->
                      generateCSV_row(report.students[i])]
    IN Join(header \o rows \o <<<<>>, generateCSV_summary(report)>>, "\n")

\* the row generateDailySheet maps a student to
dailySheet_row(onDate, s) ==
    LET i == FirstIndex({k \in 1..Len(onDate) : onDate[k].studentId = s.id})
    IN IF i # 0
       THEN [id |-> s.id, name |-> s.name, photoUrl |-> s.photoUrl,
             arrived |-> TRUE, time |-> onDate[i].time,
             minutesLate |-> onDate[i].minutesLate, status |-> onDate[i].status]
       ELSE [id |-> s.id, name |-> s.name, photoUrl |-> s.photoUrl,
             arrived |-> FALSE, time |-> Null,
             minutesLate |-> 0, status |-> "absent"]

ReportGenerator_generateDailySheet(cls, stu, st, classId, date) ==
    LET classObj == ClassManager_getById(cls, classId)
        sorted   == StudentManager_getSortedByName(stu, classId)
        onDate   == SelectSeq(Storage_get(st, "arrivals", <<>>),
                              LAMBDA a : a.classId = classId /\ a.date = date)
    IN IF classObj = Null THEN Null
       ELSE [classId   |-> classId,
             className |-> classObj.name,
             date      |-> date,
             students  |-> [i \in 1..Len(sorted) |-> dailySheet_row(onDate, sorted[i])]]

(***************************************************************************)
(* State                                                                   *)
(*   tz              the browser's time zone (hours east of UTC)           *)
(*   phase           how far App.init has run                              *)
(*   classes, students, arrivals   the managers' in-memory arrays          *)
(*   store           localStorage under the namespace                      *)
(*   currentClassId  UI.currentClassId                                     *)
(*   nextClassId, nextStudentId, nextArrivalId                             *)
(*                   the unique part of the next id of each kind           *)
(*   last            the last call: its name, the key it named, its result *)
(*                   (for markArrival also whether a time was supplied and *)
(*                   whether it follows the removal of the same key; for   *)
(*                   add whether the schedule was left out; for update the *)
(*                   fields it was given)                                  *)
(*   bundle          the text of the last exportJSON, kept by the user     *)
(*                   (Null before any export)                              *)
(*   currentDate     UI.currentDate: the date the UI was constructed on    *)
(*                   until the date picker changes it                      *)
(***************************************************************************)
\* a schedule a caller supplies: Sunday mornings, closed on Mondays, and no
\* entry for the other days
CustomSchedule ==
    [sunday |-> [enabled |-> TRUE, startTime |-> T0800, endTime |-> T1200],
     monday |-> [enabled |-> FALSE]]

\* the schedule argument of ClassManager.add: left out, null, or a schedule
ScheduleArgs == {Undefined, Null, CustomSchedule}
\* the updates argument of ClassManager.update
UpdateArgs == {[schedule |-> CustomSchedule]}
\* the field argument of UI.updateSchedule
ScheduleFields == {"startTime"}

Init ==
    /\ tz \in TZOffsets
    /\ phase = "constructed"
    /\ classes = <<>>
    /\ students = <<>>
    /\ arrivals = <<>>
    /\ store = <<>>
    /\ currentClassId = Null
    /\ nextClassId = 1
    /\ nextStudentId = 1
    /\ nextArrivalId = 1
    /\ last = [op |-> "new App"]
    /\ bundle = Null
    /\ currentDate = D0304

(***************************************************************************)
(* App.init: the three loads, then UI.init                                 *)
(***************************************************************************)
LoadClasses ==
    /\ phase = "constructed"
    /\ classes' = Storage_get(store, "classes", <<>>)
    /\ phase' = "classesLoaded"
    /\ last' = [op |-> "classManager.load"]
    /\ UNCHANGED <<tz, bundle, currentDate, nextStudentId, students, arrivals, store, currentClassId,
                   nextClassId, nextArrivalId>>

LoadStudents ==
    /\ phase = "classesLoaded"
    /\ students' = Storage_get(store, "students", <<>>)
    /\ phase' = "studentsLoaded"
    /\ last' = [op |-> "studentManager.load"]
    /\ UNCHANGED <<tz, bundle, currentDate, nextStudentId, classes, arrivals, store, currentClassId,
                   nextClassId, nextArrivalId>>

LoadArrivals ==
    /\ phase = "studentsLoaded"
    /\ arrivals' = Storage_get(store, "arrivals", <<>>)
    /\ phase' = "arrivalsLoaded"
    /\ last' = [op |-> "arrivalTracker.load"]
    /\ UNCHANGED <<tz, bundle, currentDate, nextStudentId, classes, students, store, currentClassId,
                   nextClassId, nextArrivalId>>

\* UiInit run from the constructor, before the loads
UiInit_beforeLoads ==
    /\ phase = "constructed"
    /\ currentClassId' = UI_showClassSelector(classes, currentClassId)
    /\ phase' = "ready"
    /\ last' = [op |-> "ui.init"]
    /\ UNCHANGED <<tz, bundle, currentDate, nextStudentId, classes, students, arrivals, store,
                   nextClassId, nextArrivalId>>

UiInit ==
    /\ phase = "arrivalsLoaded"
    /\ currentClassId' = UI_showClassSelector(classes, currentClassId)
    /\ phase' = "ready"
    /\ last' = [op |-> "ui.init"]
    /\ UNCHANGED <<tz, bundle, currentDate, nextStudentId, classes, students, arrivals, store,
                   nextClassId, nextArrivalId>>

(***************************************************************************)
(* Operations                                                              *)
(***************************************************************************)
\* save(): storage.set(key, collection) when the operation reached it
Saved(key, r, collection, ok) ==
    store' = IF r.saved THEN Storage_set(store, key, collection, ok).store
             ELSE store

ClassAdd(name, schedule, ok) ==
    /\ phase = "ready"
    /\ nextClassId <= MaxClasses
    /\ LET r == ClassManager_add(classes, nextClassId, name, schedule)
       IN /\ classes' = r.classes
          /\ Saved("classes", r, r.classes, ok)
          /\ last' = [op |-> "add", omitted |-> (schedule = Undefined),
                      ret |-> r.ret]
    /\ nextClassId' = nextClassId + 1
    /\ UNCHANGED <<tz, bundle, currentDate, nextStudentId, phase, students, arrivals, currentClassId, nextArrivalId>>

\* ClassUpdate classifying the ledger again under the edited schedule
ClassUpdate_reclassifies(id, updates, ok) ==
    /\ phase = "ready"
    /\ LET r == ClassManager_update(classes, id, updates)
           again(a) ==
               LET verdict == Lateness(
                       ClassManager_getScheduleForDay(
                           r.classes, a.classId, GetDay(DateParse(a.date), tz)),
                       a.time)
               IN [a EXCEPT !.minutesLate = verdict.minutesLate,
                            !.status = verdict.status]
       IN /\ classes' = r.classes
          /\ Saved("classes", r, r.classes, ok)
          /\ arrivals' = [i \in 1..Len(arrivals) |-> again(arrivals[i])]
          /\ last' = [op |-> "update", key |-> <<id>>, updates |-> updates,
                      ret |-> r.ret]
    /\ UNCHANGED <<tz, bundle, currentDate, nextStudentId, phase, students, currentClassId,
                   nextClassId, nextArrivalId>>

ClassUpdate(id, updates, ok) ==
    /\ phase = "ready"
    /\ LET r == ClassManager_update(classes, id, updates)
       IN /\ classes' = r.classes
          /\ Saved("classes", r, r.classes, ok)
          /\ last' = [op |-> "update", key |-> <<id>>, updates |-> updates,
                      ret |-> r.ret]
    /\ UNCHANGED <<tz, bundle, currentDate, nextStudentId, phase, students, arrivals, currentClassId,
                   nextClassId, nextArrivalId>>

\* ClassDelete taking the students and the arrivals of the class with it
ClassDelete_cascades(id, ok) ==
    /\ phase = "ready"
    /\ LET r == ClassManager_delete(classes, id)
       IN /\ classes' = r.classes
          /\ Saved("classes", r, r.classes, ok)
          /\ last' = [op |-> "delete", key |-> <<id>>]
    /\ students' = SelectSeq(students, LAMBDA s : s.classId # id)
    /\ arrivals' = SelectSeq(arrivals, LAMBDA a : a.classId # id)
    /\ UNCHANGED <<tz, bundle, currentDate, phase, currentClassId, nextClassId, nextStudentId,
                   nextArrivalId>>

ClassDelete(id, ok) ==
    /\ phase = "ready"
    /\ LET r == ClassManager_delete(classes, id)
       IN /\ classes' = r.classes
          /\ Saved("classes", r, r.classes, ok)
          /\ last' = [op |-> "delete", key |-> <<id>>]
    /\ UNCHANGED <<tz, bundle, currentDate, nextStudentId, phase, students, arrivals, currentClassId,
                   nextClassId, nextArrivalId>>

MarkArrival(studentId, classId, date, time, now, ok) ==
    /\ phase = "ready"
    /\ LET r == ArrivalTracker_markArrival(arrivals, classes, nextArrivalId, tz,
                                           studentId, classId, date, time, now)
       IN /\ r.ret.success => nextArrivalId <= MaxArrivals
          /\ arrivals' = r.arrivals
          /\ Saved("arrivals", r, r.arrivals, ok)
          /\ nextArrivalId' = IF r.ret.success THEN nextArrivalId + 1
                              ELSE nextArrivalId
          /\ last' = [op |-> "markArrival", key |-> <<studentId, date>>,
                      supplied |-> (time # Null),
                      afterUndo |-> /\ last.op = "removeArrival"
                                    /\ last.key = <<studentId, date>>
                                    /\ last.ret,
                      ret |-> r.ret]
    /\ UNCHANGED <<tz, bundle, currentDate, nextStudentId, phase, classes, students, currentClassId, nextClassId>>

RemoveArrival(studentId, date, ok) ==
    /\ phase = "ready"
    /\ LET r == ArrivalTracker_removeArrival(arrivals, studentId, date)
       IN /\ arrivals' = r.arrivals
          /\ Saved("arrivals", r, r.arrivals, ok)
          /\ last' = [op |-> "removeArrival", key |-> <<studentId, date>>,
                      ret |-> r.ret]
    /\ UNCHANGED <<tz, bundle, currentDate, nextStudentId, phase, classes, students, currentClassId,
                   nextClassId, nextArrivalId>>

\* UI.addClass: classManager.add(name), then showClassSelector
UiAddClass(name, ok) ==
    /\ phase = "ready"
    /\ nextClassId <= MaxClasses
    /\ LET r == ClassManager_add(classes, nextClassId, name, Undefined)
       IN /\ classes' = r.classes
          /\ Saved("classes", r, r.classes, ok)
          /\ currentClassId' = UI_showClassSelector(r.classes, currentClassId)
          /\ last' = [op |-> "ui.addClass", omitted |-> TRUE, ret |-> r.ret]
    /\ nextClassId' = nextClassId + 1
    /\ UNCHANGED <<tz, bundle, currentDate, nextStudentId, phase, students, arrivals, nextArrivalId>>

\* a click on a class button of the selector
UiSelectClass(id) ==
    /\ phase = "ready"
    /\ ClassManager_getById(classes, id) # Null
    /\ currentClassId' = id
    /\ last' = [op |-> "ui.selectClass", key |-> <<id>>]
    /\ UNCHANGED <<tz, bundle, currentDate, nextStudentId, phase, classes, students, arrivals, store,
                   nextClassId, nextArrivalId>>

\* the checkbox of a day on the schedule screen, which is drawn for the
\* current class only when there is one
UiToggleDay(day, ok) ==
    /\ phase = "ready"
    /\ ClassManager_getById(classes, currentClassId) # Null
    /\ LET classObj == ClassManager_getById(classes, currentClassId)
           r == ClassManager_update(classes, currentClassId,
                                    UI_toggleDay(classObj, day))
       IN /\ classes' = r.classes
          /\ Saved("classes", r, r.classes, ok)
          /\ last' = [op |-> "ui.toggleDay", key |-> <<day>>, ret |-> r.ret,
                      was |-> UI_dayEnabled(classObj, day),
                      twice |-> /\ last.op = "ui.toggleDay"
                                /\ last.key = <<day>>]
    /\ UNCHANGED <<tz, bundle, currentDate, nextStudentId, phase, students, arrivals, currentClassId,
                   nextClassId, nextArrivalId>>

\* a time field of a day on the schedule screen, drawn only for an enabled day
UiUpdateSchedule(day, field, value, ok) ==
    /\ phase = "ready"
    /\ ClassManager_getById(classes, currentClassId) # Null
    /\ LET classObj == ClassManager_getById(classes, currentClassId)
           r == ClassManager_update(classes, currentClassId,
                                    UI_updateSchedule(classObj, day, field, value))
       IN /\ Has(classObj.schedule, day)
          /\ Has(classObj.schedule[day], "enabled")
          /\ classObj.schedule[day].enabled
          /\ classes' = r.classes
          /\ Saved("classes", r, r.classes, ok)
          /\ last' = [op |-> "ui.updateSchedule", key |-> <<day>>, ret |-> r.ret]
    /\ UNCHANGED <<tz, bundle, currentDate, nextStudentId, phase, students, arrivals, currentClassId,
                   nextClassId, nextArrivalId>>

DoClassAdd ==
    \E name \in ClassNames, schedule \in ScheduleArgs, ok \in WriteOutcomes :
        ClassAdd(name, schedule, ok)
DoClassUpdate ==
    \E id \in ClassIds, updates \in UpdateArgs, ok \in WriteOutcomes :
        ClassUpdate(id, updates, ok)
DoClassDelete ==
    \E id \in ClassIds, ok \in WriteOutcomes : ClassDelete(id, ok)
\* the wall clock is read only when no time is supplied
DoMarkArrival ==
    \E key \in ArrivalKeys, classId \in ClassIds, ok \in WriteOutcomes :
        \/ \E time \in TimeInputs :
              MarkArrival(key[1], classId, key[2], time, time, ok)
        \/ \E now \in ClockReadings :
              MarkArrival(key[1], classId, key[2], Null, now, ok)
DoRemoveArrival ==
    \E key \in ArrivalKeys, ok \in WriteOutcomes :
        RemoveArrival(key[1], key[2], ok)
DoUiAddClass ==
    \E name \in ClassNames, ok \in WriteOutcomes : UiAddClass(name, ok)
DoUiSelectClass ==
    \E id \in ClassIds : UiSelectClass(id)
DoUiToggleDay ==
    \E day \in EditDays, ok \in WriteOutcomes : UiToggleDay(day, ok)
DoUiUpdateSchedule ==
    \E day \in EditDays, field \in ScheduleFields,
       value \in ScheduleFieldInputs, ok \in WriteOutcomes :
        UiUpdateSchedule(day, field, value, ok)

Next ==
    \/ LoadClasses
    \/ LoadStudents
    \/ LoadArrivals
    \/ UiInit
    \/ DoClassAdd
    \/ DoClassUpdate
    \/ DoClassDelete
    \/ DoMarkArrival
    \/ DoRemoveArrival
    \/ DoUiAddClass
    \/ DoUiSelectClass
    \/ DoUiToggleDay
    \/ DoUiUpdateSchedule

Spec == Init /\ [][Next]_vars

(***************************************************************************)
(* A session that starts on the data an earlier session left in the store: *)
(* two classes, two students of the first class and three arrivals.  Ids   *)
(* made in the earlier session are numbered below this session's.          *)
(***************************************************************************)
T1255 == <<"1", "2", ":", "5", "5">>
T1300 == <<"1", "3", ":", "0", "0">>
\* 2024-02-28 is a Wednesday, 2024-02-29 a Thursday, 2024-03-01 a Friday
D0228 == <<"2", "0", "2", "4", "-", "0", "2", "-", "2", "8">>
D0229 == <<"2", "0", "2", "4", "-", "0", "2", "-", "2", "9">>
D0301 == <<"2", "0", "2", "4", "-", "0", "3", "-", "0", "1">>

ClsA == [prefix |-> "cls", n |-> -1]
ClsB == [prefix |-> "cls", n |-> -2]
StuAmal == [prefix |-> "stu", n |-> -1]
StuZara == [prefix |-> "stu", n |-> -2]
Amal == <<"A", "m", "a", "l">>
Zara == <<"Z", "a", "r", "a">>

StoredClasses ==
    <<[id |-> ClsA, name |-> "1AEP", schedule |-> defaultSchedule],
      [id |-> ClsB, name |-> "2BEP", schedule |-> CustomSchedule]>>

StoredStudents ==
    <<[id |-> StuZara, name |-> Zara, classId |-> ClsA, photoUrl |-> Null],
      [id |-> StuAmal, name |-> Amal, classId |-> ClsA, photoUrl |-> Null]>>

StoredArrivals ==
    <<[id |-> [prefix |-> "arr", n |-> -1], studentId |-> StuAmal, classId |-> ClsA,
       date |-> D0228, time |-> T1255, minutesLate |-> 25, status |-> "late"],
      [id |-> [prefix |-> "arr", n |-> -2], studentId |-> StuZara, classId |-> ClsA,
       date |-> D0228, time |-> T1300, minutesLate |-> 30, status |-> "late"],
      [id |-> [prefix |-> "arr", n |-> -3], studentId |-> StuZara, classId |-> ClsA,
       date |-> D0301, time |-> T1230, minutesLate |-> 0, status |-> "on-time"]>>

PreviousSession ==
    [classes |-> StoredClasses, students |-> StoredStudents,
     arrivals |-> StoredArrivals]

SessionInit ==
    /\ tz \in TZOffsets
    /\ phase = "constructed"
    /\ classes = <<>>
    /\ students = <<>>
    /\ arrivals = <<>>
    /\ store = PreviousSession
    /\ currentClassId = Null
    /\ nextClassId = 1
    /\ nextStudentId = 1
    /\ nextArrivalId = 1
    /\ last = [op |-> "new App"]
    /\ bundle = Null
    /\ currentDate = D0304

(***************************************************************************)
(* Student operations and the read-only operations                         *)
(***************************************************************************)
StudentAdd(name, classId, photoUrl, ok) ==
    /\ phase = "ready"
    /\ nextStudentId <= MaxStudents
    /\ LET r == StudentManager_add(students, nextStudentId, name, classId, photoUrl)
       IN /\ students' = r.students
          /\ Saved("students", r, r.students, ok)
          /\ last' = [op |-> "studentManager.add", ret |-> r.ret]
    /\ nextStudentId' = nextStudentId + 1
    /\ UNCHANGED <<tz, bundle, currentDate, phase, classes, arrivals, currentClassId,
                   nextClassId, nextArrivalId>>

StudentUpdate(id, updates, ok) ==
    /\ phase = "ready"
    /\ LET r == StudentManager_update(students, id, updates)
       IN /\ students' = r.students
          /\ Saved("students", r, r.students, ok)
          /\ last' = [op |-> "studentManager.update", key |-> <<id>>, ret |-> r.ret]
    /\ UNCHANGED <<tz, bundle, currentDate, phase, classes, arrivals, currentClassId,
                   nextClassId, nextStudentId, nextArrivalId>>

\* an operation that reads and returns: only its result is recorded
Returned(op, key, ret) ==
    /\ phase = "ready"
    /\ last' = [op |-> op, key |-> key, ret |-> ret]
    /\ UNCHANGED <<tz, bundle, currentDate, phase, classes, students, arrivals, store, currentClassId,
                   nextClassId, nextStudentId, nextArrivalId>>

GenerateMonthlyReport(classId, year, month) ==
    Returned("generateMonthlyReport", <<classId, year, month>>,
             ReportGenerator_generateMonthlyReport(classes, students, store, tz,
                                                   classId, year, month))

GenerateDailySheet(classId, date) ==
    Returned("generateDailySheet", <<classId, date>>,
             ReportGenerator_generateDailySheet(classes, students, store,
                                                classId, date))

\* UI.generateCSVReport: the monthly report of the current class, then its
\* CSV; generateCSV reads report.className, which throws on a null report
UiGenerateCSVReport(year, month) ==
    LET report == ReportGenerator_generateMonthlyReport(
                      classes, students, store, tz, currentClassId, year, month)
    IN Returned("ui.generateCSVReport", <<year, month>>,
                IF report = Null THEN [threw |-> "TypeError"]
                ELSE [report |-> report, csv |-> ReportGenerator_generateCSV(report)])

GetStudentStats(studentId, startDate, endDate) ==
    Returned("getStudentStats", <<studentId, startDate, endDate>>,
             ArrivalTracker_getStudentStats(arrivals, studentId, startDate, endDate))

GetClassStats(classId, startDate, endDate) ==
    Returned("getClassStats", <<classId, startDate, endDate>>,
             ArrivalTracker_getClassStats(arrivals, classId, startDate, endDate))

(***************************************************************************)
(* The registry on stored data                                             *)
(***************************************************************************)
\* ids the registry is called with: the two stored classes and an unknown one
RegistryIds == {ClsA, ClsB, [prefix |-> "cls", n |-> 0]}
RegistryUpdates ==
    {[schedule |-> CustomSchedule], [name |-> "3CEP"],
     [name |-> "3CEP", schedule |-> defaultSchedule]}

DoRegistryUpdate ==
    \E id \in RegistryIds, updates \in RegistryUpdates, ok \in WriteOutcomes :
        ClassUpdate(id, updates, ok)
DoRegistryDelete ==
    \E id \in RegistryIds, ok \in WriteOutcomes : ClassDelete(id, ok)

RegistryNext ==
    \/ LoadClasses
    \/ LoadStudents
    \/ LoadArrivals
    \/ UiInit
    \/ DoRegistryUpdate
    \/ DoRegistryDelete

RegistrySpec == SessionInit /\ [][RegistryNext]_vars

(***************************************************************************)
(* The reports and the rollups on stored data                              *)
(***************************************************************************)
\* the (studentId, date) pairs the tracker is used on
ReportKeys == {<<StuAmal, D0229>>, <<StuZara, D0229>>}
ReportClassIds == {ClsA, ClsB}
\* the (year, month) pairs of the report screen
YearMonths == {<<2024, 2>>, <<2024, 3>>}
SheetDates == {D0229, D0301}
ReportStudentIds == {StuAmal, StuZara}
\* a date bound handed to a rollup
StatBounds == {D0229}
\* a name typed into the student form
NameInputs == {<<" ", "B", "e", "n">>}

DoReportMarkArrival ==
    \E key \in ReportKeys, time \in TimeInputs, ok \in WriteOutcomes :
        MarkArrival(key[1], ClsA, key[2], time, time, ok)
DoReportRemoveArrival ==
    \E key \in ReportKeys, ok \in WriteOutcomes : RemoveArrival(key[1], key[2], ok)
DoReportSelectClass ==
    \E id \in ReportClassIds : UiSelectClass(id)
DoStudentAdd ==
    \E name \in NameInputs, ok \in WriteOutcomes : StudentAdd(name, ClsA, Null, ok)
DoStudentUpdate ==
    \E ok \in WriteOutcomes : StudentUpdate(StuZara, [classId |-> ClsB], ok)
DoGenerateMonthlyReport ==
    \E classId \in ReportClassIds, ym \in YearMonths :
        GenerateMonthlyReport(classId, ym[1], ym[2])
DoGenerateDailySheet ==
    \E classId \in ReportClassIds, date \in SheetDates :
        GenerateDailySheet(classId, date)
DoUiGenerateCSVReport ==
    \E ym \in YearMonths : UiGenerateCSVReport(ym[1], ym[2])
\* each bound of a range is given or left out
DoGetStudentStats ==
    \E studentId \in ReportStudentIds :
        \/ GetStudentStats(studentId, Null, Null)
        \/ \E d \in StatBounds : GetStudentStats(studentId, d, Null)
        \/ \E d \in StatBounds : GetStudentStats(studentId, Null, d)
        \/ \E d, e \in StatBounds : GetStudentStats(studentId, d, e)
DoGetClassStats ==
    \E classId \in ReportClassIds :
        \/ GetClassStats(classId, Null, Null)
        \/ \E d \in StatBounds : GetClassStats(classId, d, Null)
        \/ \E d \in StatBounds : GetClassStats(classId, Null, d)
        \/ \E d, e \in StatBounds : GetClassStats(classId, d, e)

ReportNext ==
    \/ LoadClasses
    \/ LoadStudents
    \/ LoadArrivals
    \/ UiInit
    \/ DoReportMarkArrival
    \/ DoReportRemoveArrival
    \/ DoReportSelectClass
    \/ DoStudentAdd
    \/ DoStudentUpdate
    \/ DoGenerateMonthlyReport
    \/ DoGenerateDailySheet
    \/ DoUiGenerateCSVReport
    \/ DoGetStudentStats
    \/ DoGetClassStats

ReportSpec == SessionInit /\ [][ReportNext]_vars

(***************************************************************************)
(* Export and import (Storage.exportAll/importAll, ReportGenerator          *)
(* exportJSON/importJSON) and a store that may reject a write.             *)
(*                                                                         *)
(* JSON text: exportAll collects what Storage.get returned, that is what   *)
(* JSON.parse produced, and JSON.stringify followed by JSON.parse gives    *)
(* such a value back exactly.  A JSON text is kept as the value it denotes *)
(* with its indentation; a text that is not JSON is kept as its own text.  *)
(***************************************************************************)
JSON_stringify(value, space) == [json |-> value, space |-> space]

\* JSON.parse throws a SyntaxError on a text that is not JSON
JSON_parse(text) ==
    IF Has(text, "json") THEN [threw |-> FALSE, value |-> text.json]
    ELSE [threw |-> TRUE, message |-> "Unexpected token"]

\* every key of the namespace with the value get reads for it
Storage_exportAll(st) ==
    [key \in DOMAIN st |-> Storage_get(st, key, Null)]

\* Object.entries(data).forEach(([key, value]) => this.set(key, value)): one
\* set per entry, each with its own outcome; Object.entries(null) throws
RECURSIVE importAll_entries(_, _, _, _)
importAll_entries(st, data, keys, oks) ==
    IF keys = {} THEN st
    ELSE LET key == CHOOSE k \in keys : TRUE
         IN importAll_entries(Storage_set(st, key, data[key], oks[key]).store,
                              data, keys \ {key}, oks)

Storage_importAll(st, data, oks) ==
    IF data = Null THEN [threw |-> TRUE, message |-> "Cannot convert null to object",
                         store |-> st]
    ELSE [threw |-> FALSE, store |-> importAll_entries(st, data, DOMAIN data, oks)]

ReportGenerator_exportJSON(st) == JSON_stringify(Storage_exportAll(st), 2)

\* importJSON writing the bundle under the one key "backup"
importJSON_underOneKey(st, jsonData, oks) ==
    LET parsed == JSON_parse(jsonData)
    IN IF parsed.threw
       THEN [store |-> st, ret |-> [success |-> FALSE, error |-> parsed.message]]
       ELSE [store |-> SetProp(st, "backup", parsed.value),
             ret |-> [success |-> TRUE]]

\* importJSON writing what it can of a text that is not JSON: it empties
\* the keys before it reports the failure
importJSON_clearsFirst(st, jsonData, oks) ==
    LET parsed == JSON_parse(jsonData)
    IN IF parsed.threw
       THEN [store |-> <<>>, ret |-> [success |-> FALSE, error |-> parsed.message]]
       ELSE LET imported == Storage_importAll(st, parsed.value, oks)
            IN IF imported.threw
               THEN [store |-> st,
                     ret |-> [success |-> FALSE, error |-> imported.message]]
               ELSE [store |-> imported.store, ret |-> [success |-> TRUE]]

\* both JSON.parse and importAll run inside the try; the catch turns either
\* exception into the result
ReportGenerator_importJSON(st, jsonData, oks) ==
    LET parsed == JSON_parse(jsonData)
    IN IF parsed.threw
       THEN [store |-> st, ret |-> [success |-> FALSE, error |-> parsed.message]]
       ELSE LET imported == Storage_importAll(st, parsed.value, oks)
            IN IF imported.threw
               THEN [store |-> st,
                     ret |-> [success |-> FALSE, error |-> imported.message]]
               ELSE [store |-> imported.store, ret |-> [success |-> TRUE]]

ExportJSON ==
    /\ phase = "ready"
    /\ bundle' = ReportGenerator_exportJSON(store)
    /\ last' = [op |-> "exportJSON", ret |-> bundle']
    /\ UNCHANGED <<tz, currentDate, phase, classes, students, arrivals, store, currentClassId,
                   nextClassId, nextStudentId, nextArrivalId>>

ImportJSON(jsonData, oks) ==
    /\ phase = "ready"
    /\ LET r == ReportGenerator_importJSON(store, jsonData, oks)
       IN /\ store' = r.store
          /\ last' = [op |-> "importJSON", key |-> <<jsonData>>, ret |-> r.ret]
    /\ UNCHANGED <<tz, bundle, currentDate, phase, classes, students, arrivals, currentClassId,
                   nextClassId, nextStudentId, nextArrivalId>>

\* outcomes of localStorage.setItem in a browser whose quota may be reached
StoreOutcomes == {TRUE, FALSE}
\* texts handed to importJSON besides an exported bundle: one that is not
\* JSON, and the JSON text null
ForeignTexts == {[text |-> "{oops"], JSON_stringify(Null, 0)}
\* the (studentId, date) pairs the tracker is used on
BackupKeys == {<<StuAmal, D0229>>, <<StuZara, D0301>>}

BackupNext ==
    \/ LoadClasses
    \/ LoadStudents
    \/ LoadArrivals
    \/ UiInit
    \/ \E key \in BackupKeys, ok \in StoreOutcomes :
          MarkArrival(key[1], ClsA, key[2], T1245, T1245, ok)
    \/ \E key \in BackupKeys, ok \in StoreOutcomes :
          RemoveArrival(key[1], key[2], ok)
    \/ ExportJSON
    \/ \E oks \in [{"classes", "students", "arrivals"} -> StoreOutcomes] :
          \/ bundle # Null /\ ImportJSON(bundle, oks)
          \/ \E text \in ForeignTexts : ImportJSON(text, oks)

BackupSpec == SessionInit /\ [][BackupNext]_vars

(***************************************************************************)
(* The student directory on a fresh installation: the student form, the    *)
(* CSV import and the report buttons, which are drawn whether or not a     *)
(* class is selected                                                       *)
(***************************************************************************)
\* String.prototype.toLowerCase on the letters A-Z
ToLowerCase(str) ==
    [k \in 1..Len(str) |->
        IF \E i \in 1..26 : UpperCase[i] = str[k]
        THEN LowerCase[CHOOSE i \in 1..26 : UpperCase[i] = str[k]]
        ELSE str[k]]

\* String.prototype.includes
Includes(str, sub) ==
    \E i \in 1..(Len(str) - Len(sub) + 1) : SubSeq(str, i, i + Len(sub) - 1) = sub

\* the loop of importFromCSV from line i on (1-based, so that i is the
\* number the error message gives the line)
RECURSIVE importFromCSV_lines(_, _, _, _, _)
importFromCSV_lines(stu, n, lines, i, classId) ==
    IF i > Len(lines)
    THEN [students |-> stu, n |-> n, imported |-> 0, errors |-> <<>>]
    ELSE LET line     == Trim(lines[i])
             split    == Split(line, ",")
             parts    == [k \in 1..Len(split) |-> Trim(split[k])]
             name     == parts[1]
             photoUrl == IF Len(parts) >= 2 /\ parts[2] # <<>> THEN parts[2]
                         ELSE Null
         IN IF line = <<>>
            THEN importFromCSV_lines(stu, n, lines, i + 1, classId)
            ELSE IF name # <<>>
            THEN LET added == StudentManager_add(stu, n, name, classId, photoUrl)
                     rest  == importFromCSV_lines(added.students, n + 1, lines,
                                                  i + 1, classId)
                 IN [rest EXCEPT !.imported = @ + 1]
            ELSE LET rest == importFromCSV_lines(stu, n, lines, i + 1, classId)
                 IN [rest EXCEPT
                        !.errors = <<[line |-> i, message |-> "Empty name"]>> \o @]

StudentManager_importFromCSV(stu, n, csvContent, classId) ==
    LET lines      == Split(Trim(csvContent), "\n")
        startIndex == IF Includes(ToLowerCase(lines[1]), <<"n", "a", "m", "e">>)
                      THEN 2 ELSE 1
        r          == importFromCSV_lines(stu, n, lines, startIndex, classId)
    IN [students |-> r.students, n |-> r.n, saved |-> r.imported > 0,
        ret |-> [success |-> TRUE, imported |-> r.imported, errors |-> r.errors]]

\* UI.addStudent: the form's name, which "required" lets through unless it
\* is empty, and the form's photo URL, '' when left blank; the form is drawn
\* on the students screen of a selected class
UiAddStudent(name, photoUrl, ok) ==
    /\ phase = "ready"
    /\ currentClassId # Null
    /\ name # <<>>
    /\ nextStudentId <= MaxStudents
    /\ LET r == StudentManager_add(students, nextStudentId, name, currentClassId,
                                   IF photoUrl = <<>> THEN Null ELSE photoUrl)
       IN /\ students' = r.students
          /\ Saved("students", r, r.students, ok)
          /\ last' = [op |-> "ui.addStudent", ret |-> r.ret]
    /\ nextStudentId' = nextStudentId + 1
    /\ UNCHANGED <<tz, bundle, currentDate, phase, classes, arrivals, currentClassId,
                   nextClassId, nextArrivalId>>

\* UI.importStudents: importFromCSV of the textarea into the current class;
\* every add saves, the last save writing the whole array
UiImportStudents(csvContent, ok) ==
    /\ phase = "ready"
    /\ currentClassId # Null
    /\ LET r == StudentManager_importFromCSV(students, nextStudentId, csvContent,
                                             currentClassId)
       IN /\ r.n <= MaxStudents + 1
          /\ students' = r.students
          /\ Saved("students", r, r.students, ok)
          /\ nextStudentId' = r.n
          /\ last' = [op |-> "ui.importStudents", ret |-> r.ret]
    /\ UNCHANGED <<tz, bundle, currentDate, phase, classes, arrivals, currentClassId,
                   nextClassId, nextArrivalId>>

DirectoryNext ==
    \/ LoadClasses
    \/ LoadStudents
    \/ LoadArrivals
    \/ UiInit
    \/ DoUiAddClass
    \/ \E id \in ClassIds \cup {[prefix |-> "cls", n |-> 0]}, ok \in WriteOutcomes :
          ClassDelete(id, ok)
    \/ \E name \in {<<" ">>, <<" ", "B", "e", "n">>}, ok \in WriteOutcomes :
          UiAddStudent(name, <<>>, ok)
    \/ \E name \in {<<>>, Zara}, classId \in ClassIds, ok \in WriteOutcomes :
          StudentAdd(name, classId, Null, ok)
    \/ \E csvContent \in {<<"N", "a", "m", "e", "\n", " ", ",", "x", "\n",
                            "A", "m", "a", "l", " ">>,
                          <<"Z", "a", "r", "a", ",", "x">>},
          ok \in WriteOutcomes :
          UiImportStudents(csvContent, ok)
    \/ \E classId \in ClassIds \cup {[prefix |-> "cls", n |-> 0]},
          ym \in YearMonths :
          GenerateMonthlyReport(classId, ym[1], ym[2])
    \/ \E classId \in ClassIds \cup {[prefix |-> "cls", n |-> 0]},
          date \in SheetDates :
          GenerateDailySheet(classId, date)
    \/ \E ym \in YearMonths : UiGenerateCSVReport(ym[1], ym[2])

DirectorySpec == Init /\ [][DirectoryNext]_vars

(***************************************************************************)
(* The tracker view: the date picker, the student cards and the counts,    *)
(* with every mutating operation of the managers beside them               *)
(***************************************************************************)
\* StudentManager.delete(id): the filter is always saved
StudentManager_delete(stu, id) ==
    [students |-> SelectSeq(stu, LAMBDA s : s.id # id), saved |-> TRUE]

ArrivalTracker_getByClassAndDate(arr, classId, date) ==
    SelectSeq(arr, LAMBDA a : a.classId = classId /\ a.date = date)

\* the two counts renderTrackerView writes under the cards
UI_renderTrackerView(stu, arr, current, date) ==
    LET shown == StudentManager_getSortedByName(stu, current)
        marks == ArrivalTracker_getByClassAndDate(arr, current, date)
    IN [present |-> Len(marks), absent |-> Len(shown) - Len(marks)]

\* the 'change' handler of the date picker
UiSetDate(date) ==
    /\ phase = "ready"
    /\ currentDate' = date
    /\ last' = [op |-> "ui.setDate", key |-> <<date>>]
    /\ UNCHANGED <<tz, bundle, phase, classes, students, arrivals, store,
                   currentClassId, nextClassId, nextStudentId, nextArrivalId>>

\* UI.toggleArrival(studentId) with hasArrived asking for the student alone
UiToggleArrival_byStudent(studentId, now, ok) ==
    /\ phase = "ready"
    /\ ClassManager_getById(classes, currentClassId) # Null
    /\ \E k \in 1..Len(students) :
          students[k].id = studentId /\ students[k].classId = currentClassId
    /\ LET existing == hasArrived_byStudent(arrivals, studentId, currentDate)
           r == IF existing # Null
                THEN ArrivalTracker_removeArrival(arrivals, studentId, currentDate)
                ELSE ArrivalTracker_markArrival(arrivals, classes, nextArrivalId, tz,
                                                studentId, currentClassId,
                                                currentDate, Null, now)
       IN /\ existing = Null => nextArrivalId <= MaxArrivals
          /\ arrivals' = r.arrivals
          /\ Saved("arrivals", r, r.arrivals, ok)
          /\ nextArrivalId' = IF existing = Null THEN nextArrivalId + 1
                              ELSE nextArrivalId
          /\ last' = [op |-> "ui.toggleArrival", key |-> <<studentId, currentDate>>,
                      existed |-> (existing # Null),
                      before |-> {<<arrivals[k].studentId, arrivals[k].date>> :
                                     k \in 1..Len(arrivals)},
                      again |-> /\ last.op = "ui.toggleArrival"
                                /\ last.key = <<studentId, currentDate>>,
                      pairsThen |-> IF last.op = "ui.toggleArrival"
                                    THEN last.before ELSE {}]
    /\ UNCHANGED <<tz, bundle, currentDate, phase, classes, students,
                   currentClassId, nextClassId, nextStudentId>>

\* UI.toggleArrival(studentId): a click on the card of a student of the current
\* class; markArrival is called without a time, so the wall clock is read
UiToggleArrival(studentId, now, ok) ==
    /\ phase = "ready"
    /\ ClassManager_getById(classes, currentClassId) # Null
    /\ \E k \in 1..Len(students) :
          students[k].id = studentId /\ students[k].classId = currentClassId
    /\ LET existing == ArrivalTracker_hasArrived(arrivals, studentId, currentDate)
           r == IF existing # Null
                THEN ArrivalTracker_removeArrival(arrivals, studentId, currentDate)
                ELSE ArrivalTracker_markArrival(arrivals, classes, nextArrivalId, tz,
                                                studentId, currentClassId,
                                                currentDate, Null, now)
       IN /\ existing = Null => nextArrivalId <= MaxArrivals
          /\ arrivals' = r.arrivals
          /\ Saved("arrivals", r, r.arrivals, ok)
          /\ nextArrivalId' = IF existing = Null THEN nextArrivalId + 1
                              ELSE nextArrivalId
          /\ last' = [op |-> "ui.toggleArrival", key |-> <<studentId, currentDate>>,
                      existed |-> (existing # Null),
                      before |-> {<<arrivals[k].studentId, arrivals[k].date>> :
                                     k \in 1..Len(arrivals)},
                      again |-> /\ last.op = "ui.toggleArrival"
                                /\ last.key = <<studentId, currentDate>>,
                      pairsThen |-> IF last.op = "ui.toggleArrival"
                                    THEN last.before ELSE {}]
    /\ UNCHANGED <<tz, bundle, currentDate, phase, classes, students,
                   currentClassId, nextClassId, nextStudentId>>

\* UI.deleteStudent with the write of StudentManager.delete left out
UiDeleteStudent_unsaved(studentId, confirmed, ok) ==
    /\ phase = "ready"
    /\ \E k \in 1..Len(students) :
          students[k].id = studentId /\ students[k].classId = currentClassId
    /\ LET r == StudentManager_delete(students, studentId)
       IN IF confirmed
          THEN /\ students' = r.students
               /\ UNCHANGED store
          ELSE UNCHANGED <<students, store>>
    /\ last' = [op |-> "ui.deleteStudent", key |-> <<studentId>>, ret |-> confirmed]
    /\ UNCHANGED <<tz, bundle, currentDate, phase, classes, arrivals,
                   currentClassId, nextClassId, nextStudentId, nextArrivalId>>

\* UI.deleteStudent(studentId): the delete button of a student listed for the
\* current class; nothing happens when the confirm dialog is dismissed
UiDeleteStudent(studentId, confirmed, ok) ==
    /\ phase = "ready"
    /\ \E k \in 1..Len(students) :
          students[k].id = studentId /\ students[k].classId = currentClassId
    /\ LET r == StudentManager_delete(students, studentId)
       IN IF confirmed
          THEN /\ students' = r.students
               /\ Saved("students", r, r.students, ok)
          ELSE UNCHANGED <<students, store>>
    /\ last' = [op |-> "ui.deleteStudent", key |-> <<studentId>>, ret |-> confirmed]
    /\ UNCHANGED <<tz, bundle, currentDate, phase, classes, arrivals,
                   currentClassId, nextClassId, nextStudentId, nextArrivalId>>

\* renderTrackerView with a class selected; it reads classObj.name, so it
\* draws nothing when the class is gone
RenderTrackerView ==
    /\ ClassManager_getById(classes, currentClassId) # Null
    /\ Returned("ui.renderTrackerView", <<currentClassId, currentDate>>,
                UI_renderTrackerView(students, arrivals, currentClassId,
                                     currentDate))

TrackerStudentIds == {[prefix |-> "stu", n |-> k] : k \in 1..MaxStudents}

TrackerNext ==
    \/ LoadClasses
    \/ LoadStudents
    \/ LoadArrivals
    \/ UiInit
    \/ DoUiAddClass
    \/ DoClassUpdate
    \/ DoClassDelete
    \/ \E ok \in WriteOutcomes : UiAddStudent(Zara, <<>>, ok)
    \/ \E id \in TrackerStudentIds, ok \in WriteOutcomes :
          StudentUpdate(id, [name |-> Amal], ok)
    \/ \E ok \in WriteOutcomes :
          UiImportStudents(<<"Z", "a", "r", "a", ",", "x">>, ok)
    \/ \E id \in TrackerStudentIds, confirmed \in BOOLEAN, ok \in WriteOutcomes :
          UiDeleteStudent(id, confirmed, ok)
    \/ \E date \in Dates : UiSetDate(date)
    \/ \E id \in TrackerStudentIds, now \in ClockReadings, ok \in WriteOutcomes :
          UiToggleArrival(id, now, ok)
    \/ \E id \in TrackerStudentIds, date \in Dates, time \in TimeInputs,
          classId \in ClassIds, ok \in WriteOutcomes :
          MarkArrival(id, classId, date, time, time, ok)
    \/ \E id \in TrackerStudentIds, date \in Dates, ok \in WriteOutcomes :
          RemoveArrival(id, date, ok)
    \/ RenderTrackerView

TrackerSpec == Init /\ [][TrackerNext]_vars

(***************************************************************************)
(* The schedule screen on stored data: two classes, the selector and the   *)
(* checkbox and the two time fields of a day                               *)
(***************************************************************************)
\* the days of the schedule screen that are used
ScreenDays == {"monday", "tuesday"}
ScreenFields == {"startTime", "endTime"}

ScheduleNext ==
    \/ LoadClasses
    \/ LoadStudents
    \/ LoadArrivals
    \/ UiInit
    \/ \E id \in {ClsA, ClsB} : UiSelectClass(id)
    \/ \E day \in ScreenDays, ok \in WriteOutcomes : UiToggleDay(day, ok)
    \/ \E day \in ScreenDays, field \in ScreenFields, ok \in WriteOutcomes :
          UiUpdateSchedule(day, field, T1245, ok)

ScheduleSpec == SessionInit /\ [][ScheduleNext]_vars

(***************************************************************************)
(* The pre-bundled copy of the core (the bundle file): ClassManager.load   *)
(***************************************************************************)
\* getDefaultClasses of the bundle: one class with the fixed id
\* 'cls_default', which no generated id equals
Bundle_getDefaultClasses ==
    LET afternoon == [enabled   |-> TRUE,
                      startTime |-> <<"1", "4", ":", "3", "0">>,
                      endTime   |-> <<"1", "6", ":", "2", "0">>]
    IN <<[id       |-> [prefix |-> "cls", n |-> -99],
          name     |-> "2AEP",
          schedule |-> [monday   |-> afternoon, tuesday  |-> afternoon,
                        wednesday |-> afternoon, thursday |-> afternoon,
                        friday   |-> afternoon, saturday |-> afternoon,
                        sunday   |-> [enabled |-> FALSE]]]>>

\* this.storage.get("classes") || this.getDefaultClasses(): get's default is
\* null, and an array, even an empty one, is truthy
Bundle_ClassManager_load(st) ==
    IF Has(st, "classes") THEN st.classes ELSE Bundle_getDefaultClasses

(***************************************************************************)
(* Properties.  What the specification says is restated here without the   *)
(* code's own parsing: times and dates are read by character position.     *)
(***************************************************************************)
\* minutes since midnight of an HH:MM string
MinutesOf(t) ==
    (DigitVal(t[1]) * 10 + DigitVal(t[2])) * 60 + DigitVal(t[4]) * 10 + DigitVal(t[5])

\* the name of the weekday on which the calendar date YYYY-MM-DD falls
WeekdayOf(date) ==
    LET y == DigitVal(date[1]) * 1000 + DigitVal(date[2]) * 100
             + DigitVal(date[3]) * 10 + DigitVal(date[4])
        m == DigitVal(date[6]) * 10 + DigitVal(date[7])
        d == DigitVal(date[9]) * 10 + DigitVal(date[10])
    IN dayNames[((DaysFromCivil(y, m, d) + 4) % 7) + 1]

\* whether an entry of a weekly schedule is {enabled: true, startTime: S}
Scheduled(entry) ==
    /\ entry # Null
    /\ Has(entry, "enabled") /\ entry.enabled
    /\ Has(entry, "startTime") /\ entry.startTime # <<>>

\* the verdict section 4.2 asks for, given the day's entry and the arrival time
SpecVerdict(entry, t) ==
    IF Scheduled(entry) /\ MinutesOf(t) > MinutesOf(entry.startTime)
    THEN [minutesLate |-> MinutesOf(t) - MinutesOf(entry.startTime), status |-> "late"]
    ELSE [minutesLate |-> 0, status |-> "on-time"]

\* the class's entry for the weekday of the calendar date, Null when the class
\* is unknown or has no entry for that weekday
WeekdayEntry(cls, classId, date) ==
    IF \E i \in 1..Len(cls) : cls[i].id = classId
    THEN LET c == cls[CHOOSE i \in 1..Len(cls) : cls[i].id = classId]
         IN IF WeekdayOf(date) \in DOMAIN c.schedule
            THEN c.schedule[WeekdayOf(date)] ELSE Null
    ELSE Null

\* the number of Arrivals the ledger holds for (studentId, date)
CountKey(arr, studentId, date) ==
    Cardinality({i \in 1..Len(arr) :
                    arr[i].studentId = studentId /\ arr[i].date = date})

\* a successful markArrival with a supplied time has just returned
MarkedWithTime ==
    last.op = "markArrival" /\ last.ret.success /\ last.supplied

\* C1: the ledger never holds two Arrivals for the same (studentId, date).
C1_OneArrivalPerStudentDate ==
    \A i, j \in 1..Len(arrivals) :
        (i # j) => ~(/\ arrivals[i].studentId = arrivals[j].studentId
                     /\ arrivals[i].date = arrivals[j].date)

\* a second markArrival for a recorded pair was made while the ledger holds
\* two Arrivals
C1_Witness ==
    /\ Len(arrivals) = 2
    /\ last.op = "markArrival" /\ ~last.ret.success

\* C2: a markArrival for a (studentId, date) that already has an Arrival
\* returns success:false and changes neither the ledger nor the store, so the
\* pair keeps exactly its first Arrival.
C2_RejectionLeavesFirstArrival ==
    [][(/\ last'.op = "markArrival"
        /\ CountKey(arrivals, last'.key[1], last'.key[2]) > 0)
       => /\ last'.ret.success = FALSE
          /\ arrivals' = arrivals
          /\ store' = store
          /\ CountKey(arrivals', last'.key[1], last'.key[2]) = 1]_vars

\* a markArrival was rejected for a pair whose first Arrival is a late one
C2_Witness ==
    /\ last.op = "markArrival" /\ ~last.ret.success
    /\ last.ret.arrival.status = "late"
    /\ last.ret.arrival \in {arrivals[i] : i \in 1..Len(arrivals)}

\* C3: when the class's entry for the date's weekday is enabled with start S
\* and the supplied time T is after S, the stored Arrival has
\* minutesLate = T - S in minutes and status "late".
C3_LateByTheDifference ==
    MarkedWithTime =>
        LET a     == last.ret.arrival
            entry == WeekdayEntry(classes, a.classId, a.date)
        IN (Scheduled(entry) /\ MinutesOf(a.time) > MinutesOf(entry.startTime))
           => /\ a.minutesLate = MinutesOf(a.time) - MinutesOf(entry.startTime)
              /\ a.status = "late"

\* C4: when the class's entry for the date's weekday is enabled with start S
\* and the supplied time T is not after S, the stored Arrival has
\* minutesLate = 0 and status "on-time".
C4_OnTimeUpToTheStart ==
    MarkedWithTime =>
        LET a     == last.ret.arrival
            entry == WeekdayEntry(classes, a.classId, a.date)
        IN (Scheduled(entry) /\ MinutesOf(a.time) <= MinutesOf(entry.startTime))
           => /\ a.minutesLate = 0
              /\ a.status = "on-time"

\* C5: when the class is unknown, or its entry for the date's weekday is
\* missing, disabled or without a start time, the stored Arrival has
\* minutesLate = 0 and status "on-time", whatever the arrival time.
C5_NoScheduleNoLateness ==
    (last.op = "markArrival" /\ last.ret.success) =>
        LET a     == last.ret.arrival
            entry == WeekdayEntry(classes, a.classId, a.date)
        IN ~Scheduled(entry)
           => /\ a.minutesLate = 0
              /\ a.status = "on-time"

\* the calls that edit a class through ClassManager.update
UpdateOps == {"update", "ui.toggleDay", "ui.updateSchedule"}

\* C6: an edit of a class through ClassManager.update, direct or from the
\* schedule screen, leaves status and minutesLate of every Arrival of the
\* ledger as they were.
C6_UpdateKeepsVerdicts ==
    [][(last'.op \in UpdateOps)
       => /\ Len(arrivals') = Len(arrivals)
          /\ \A i \in 1..Len(arrivals) :
                /\ arrivals'[i].id = arrivals[i].id
                /\ arrivals'[i].status = arrivals[i].status
                /\ arrivals'[i].minutesLate = arrivals[i].minutesLate]_vars

\* the verdict the ledger would give an Arrival if it were classified now
VerdictNow(a) ==
    SpecVerdict(ClassManager_getScheduleForDay(classes, a.classId,
                                               GetDay(DateParse(a.date), tz)),
                a.time)

\* a class was just edited and the ledger holds an Arrival whose stored
\* verdict is not the one the edited schedule would give
C6_Witness ==
    /\ last.op \in UpdateOps
    /\ last.ret # Null
    /\ \E i \in 1..Len(arrivals) :
          VerdictNow(arrivals[i]).minutesLate # arrivals[i].minutesLate

\* C7: a markArrival that follows the removal of the Arrival of the same
\* (studentId, date) succeeds and appends one new record for the pair,
\* classified against the class schedule as it is at that call.
C7_MarkAfterUndoSucceeds ==
    (last.op = "markArrival" /\ last.afterUndo) =>
        /\ last.ret.success
        /\ Len(arrivals) > 0
        /\ arrivals[Len(arrivals)] = last.ret.arrival
        /\ <<last.ret.arrival.studentId, last.ret.arrival.date>> = last.key
        /\ CountKey(arrivals, last.key[1], last.key[2]) = 1
        /\ last.ret.arrival.minutesLate = VerdictNow(last.ret.arrival).minutesLate
        /\ last.ret.arrival.status = VerdictNow(last.ret.arrival).status

\* a markArrival right after the removal of the same pair created a late
\* Arrival
C7_Witness ==
    /\ last.op = "markArrival" /\ last.afterUndo
    /\ last.ret.success
    /\ last.ret.arrival.status = "late"

\* C8: removeArrival returns true exactly when the pair had an Arrival, and
\* then removes that record and no other; otherwise it returns false and
\* changes neither the ledger nor the store.
C8_RemoveExactlyTheMatch ==
    [][(last'.op = "removeArrival")
       => LET s       == last'.key[1]
              d       == last'.key[2]
              matches == {i \in 1..Len(arrivals) :
                            arrivals[i].studentId = s /\ arrivals[i].date = d}
          IN /\ last'.ret = (matches # {})
             /\ (matches = {}) => (arrivals' = arrivals /\ store' = store)
             /\ (matches # {}) =>
                   \E i \in matches :
                       arrivals' = SubSeq(arrivals, 1, i - 1)
                                   \o SubSeq(arrivals, i + 1, Len(arrivals))]_vars

\* a removeArrival returned true and left the other Arrival in the ledger
C8_Witness ==
    /\ last.op = "removeArrival" /\ last.ret
    /\ Len(arrivals) = 1

\* C9: hasArrived gives a record exactly for the pairs for which markArrival
\* is rejected, and that record is the one the rejection carries.
C9_HasArrivedIsTheDuplicateCheck ==
    /\ \A key \in ArrivalKeys, classId \in ClassIds, time \in TimeInputs :
          LET h == ArrivalTracker_hasArrived(arrivals, key[1], key[2])
              r == ArrivalTracker_markArrival(arrivals, classes, nextArrivalId, tz,
                                              key[1], classId, key[2], time, time)
          IN /\ (h # Null) <=> ~r.ret.success
             /\ (h # Null) => r.ret.arrival = h
    /\ (last.op = "markArrival" /\ ~last.ret.success)
          => last.ret.arrival = ArrivalTracker_hasArrived(arrivals, last.key[1],
                                                          last.key[2])

\* a markArrival was rejected while another pair of the same student has no
\* Arrival
C9_Witness ==
    /\ last.op = "markArrival" /\ ~last.ret.success
    /\ \E key \in ArrivalKeys :
          /\ key[1] = last.key[1]
          /\ ArrivalTracker_hasArrived(arrivals, key[1], key[2]) = Null

\* C10: add called without a schedule returns, keeps in memory and persists a
\* class whose schedule is the default one.
C10_AddWithoutScheduleIsDefault ==
    (last.op \in {"add", "ui.addClass"} /\ last.omitted) =>
        /\ last.ret.schedule = defaultSchedule
        /\ classes[Len(classes)] = last.ret
        /\ Storage_get(store, "classes", <<>>) = classes

\* C11: for a class that add created with its schedule left out or null,
\* getScheduleForDay returns the class's entry for each weekday 0..6 and never
\* null; for an id that is not in the registry it returns null.
C11_KnownClassHasEveryDay ==
    /\ (last.op \in {"add", "ui.addClass"}
          /\ (last.omitted \/ last.ret.schedule = defaultSchedule)) =>
          \A d \in 0..6 :
              LET r == ClassManager_getScheduleForDay(classes, last.ret.id, d)
              IN /\ r # Null
                 /\ r = last.ret.schedule[dayNames[d + 1]]
    /\ \A id \in ClassIds, d \in 0..6 :
          ClassManager_getById(classes, id) = Null
             => ClassManager_getScheduleForDay(classes, id, d) = Null

\* C12: update(id, fields) for an id of the registry puts exactly the given
\* top-level fields on that class (a given schedule becomes the whole
\* schedule), keeps its other fields and every other class, persists the
\* registry and returns the updated class; for an unknown id it returns null
\* and changes neither the registry nor the store.
C12_UpdateReplacesTopLevelFields ==
    [][(last'.op = "update") =>
          LET id      == last'.key[1]
              given   == last'.updates
              targets == {i \in 1..Len(classes) : classes[i].id = id}
          IN IF targets # {}
             THEN /\ Len(classes') = Len(classes)
                  /\ \A i \in 1..Len(classes) :
                        IF i \in targets
                        THEN /\ DOMAIN classes'[i] = DOMAIN classes[i] \cup DOMAIN given
                             /\ \A f \in DOMAIN given : classes'[i][f] = given[f]
                             /\ \A f \in DOMAIN classes[i] \ DOMAIN given :
                                   classes'[i][f] = classes[i][f]
                             /\ last'.ret = classes'[i]
                        ELSE classes'[i] = classes[i]
                  /\ "classes" \in DOMAIN store'
                  /\ store'["classes"] = classes'
             ELSE /\ last'.ret = Null
                  /\ classes' = classes
                  /\ store' = store]_vars

\* the first of two classes, created with the default week, was given a
\* schedule of two days and has only those two days
C12_Witness ==
    /\ last.op = "update"
    /\ Len(classes) = 2
    /\ last.ret # Null
    /\ last.ret = classes[1]
    /\ last.ret.name = "1AEP"
    /\ DOMAIN last.ret.schedule = {"sunday", "monday"}

\* C13: delete(id) takes the class with that id, and nothing else, out of the
\* registry, and leaves the students and the arrivals, in memory and in the
\* store, as they were, those that refer to the class included.
C13_DeleteDoesNotCascade ==
    [][(last'.op = "delete") =>
          LET id      == last'.key[1]
              targets == {i \in 1..Len(classes) : classes[i].id = id}
          IN /\ \A i \in 1..Len(classes') : classes'[i].id # id
             /\ Len(classes') = Len(classes) - Cardinality(targets)
             /\ \A i \in 1..Len(classes) \ targets :
                   classes[i] = classes'[i - Cardinality({t \in targets : t < i})]
             /\ students' = students
             /\ arrivals' = arrivals
             /\ Storage_get(store', "students", <<>>) = Storage_get(store, "students", <<>>)
             /\ Storage_get(store', "arrivals", <<>>) = Storage_get(store, "arrivals", <<>>)]_vars

\* a class was deleted while a student and an arrival refer to it, and they
\* are still in the directory and in the ledger
C13_Witness ==
    /\ last.op = "delete"
    /\ ClassManager_getById(classes, last.key[1]) = Null
    /\ Len(classes) = 1
    /\ \E i \in 1..Len(students) : students[i].classId = last.key[1]
    /\ \E i \in 1..Len(arrivals) : arrivals[i].classId = last.key[1]

\* the year and the month of a date YYYY-MM-DD, read by character position
YearOf(date) ==
    DigitVal(date[1]) * 1000 + DigitVal(date[2]) * 100
    + DigitVal(date[3]) * 10 + DigitVal(date[4])
MonthOf(date) == DigitVal(date[6]) * 10 + DigitVal(date[7])

\* the indices of the ledger's arrivals of a student dated in a calendar month
InMonth(studentId, year, month) ==
    {i \in 1..Len(arrivals) :
        /\ arrivals[i].studentId = studentId
        /\ YearOf(arrivals[i].date) = year
        /\ MonthOf(arrivals[i].date) = month}

\* C14: each row of generateMonthlyReport(classId, year, month) counts and
\* lists exactly the student's arrivals whose date is a day of that calendar
\* month, the last day of the month included and the first day of the next
\* month excluded.
C14_ReportCountsTheCalendarMonth ==
    (last.op = "generateMonthlyReport" /\ last.ret # Null) =>
        \A r \in 1..Len(last.ret.students) :
            LET row   == last.ret.students[r]
                month == InMonth(row.id, last.key[2], last.key[3])
            IN /\ row.totalDays = Cardinality(month)
               /\ {row.arrivals[k].date : k \in 1..Len(row.arrivals)}
                     = {arrivals[i].date : i \in month}

\* a date YYYY-MM-DD as the number YYYYMMDD, read by character position
DateKey(date) ==
    YearOf(date) * 10000 + MonthOf(date) * 100
    + DigitVal(date[9]) * 10 + DigitVal(date[10])

\* the sum of minutesLate over the arrivals of the ledger at the indices S
RECURSIVE MinutesOver(_)
MinutesOver(S) ==
    IF S = {} THEN 0
    ELSE LET i == CHOOSE x \in S : TRUE
         IN arrivals[i].minutesLate + MinutesOver(S \ {i})

\* whether q is total / count rounded to the nearest integer (count > 0)
NearestInteger(q, total, count) ==
    /\ 2 * (q * count - total) <= count
    /\ 2 * (total - q * count) <= count

\* the indices of the ledger's arrivals of a student in the window of the
\* report of (year, month): from its first day to the end date of the report
InWindow(studentId, year, month) ==
    {i \in 1..Len(arrivals) :
        /\ arrivals[i].studentId = studentId
        /\ DateKey(arrivals[i].date) >= year * 10000 + month * 100 + 1
        /\ DateKey(arrivals[i].date) <= DateKey(monthlyReport_endDate(year, month, tz))}

\* C15: generateMonthlyReport has one row for each student of the class and
\* no other; over the student's arrivals in the report's window the row has
\* totalDays = their number, onTime = the number of on-time ones, tardies =
\* the number of late ones, totalMinutesLate = the sum of minutesLate of the
\* late ones and avgMinutesLate = that sum over tardies rounded to the nearest
\* integer, 0 without a late one.
C15_MonthlyRowTotals ==
    (last.op = "generateMonthlyReport" /\ last.ret # Null) =>
        LET rows    == last.ret.students
            ofClass == {i \in 1..Len(students) : students[i].classId = last.key[1]}
        IN /\ Len(rows) = Cardinality(ofClass)
           /\ \A i \in ofClass :
                 Cardinality({r \in 1..Len(rows) : rows[r].id = students[i].id}) = 1
           /\ \A r \in 1..Len(rows) :
                 LET row    == rows[r]
                     window == InWindow(row.id, last.key[2], last.key[3])
                     late   == {i \in window : arrivals[i].status = "late"}
                 IN /\ row.totalDays = Cardinality(window)
                    /\ row.onTime =
                          Cardinality({i \in window : arrivals[i].status = "on-time"})
                    /\ row.tardies = Cardinality(late)
                    /\ row.totalMinutesLate = MinutesOver(late)
                    /\ IF late = {} THEN row.avgMinutesLate = 0
                       ELSE NearestInteger(row.avgMinutesLate, MinutesOver(late),
                                           Cardinality(late))

\* a report has a row with two late arrivals, of 15 and 25 minutes: tardies 2,
\* 40 minutes, average 20
C15_Witness ==
    /\ last.op = "generateMonthlyReport" /\ last.ret # Null
    /\ \E r \in 1..Len(last.ret.students) :
          LET row == last.ret.students[r]
          IN /\ row.tardies = 2
             /\ row.totalMinutesLate = 40
             /\ row.avgMinutesLate = 20
             /\ {row.arrivals[k].minutesLate : k \in 1..Len(row.arrivals)} = {15, 25}

\* the indices among S of the arrivals of the ledger dated from..to, both ends
\* included; a bound that is Null was left out
Between(S, from, to) ==
    {i \in S :
        /\ (from # Null) => DateKey(arrivals[i].date) >= DateKey(from)
        /\ (to # Null) => DateKey(arrivals[i].date) <= DateKey(to)}

\* whether q is total / count with a half rounded away from zero (count > 0,
\* total >= 0)
RoundedHalfUp(q, total, count) ==
    /\ (2 * q - 1) * count <= 2 * total
    /\ 2 * total < (2 * q + 1) * count

\* C16: getStudentStats(studentId, start, end) counts exactly the student's
\* arrivals dated start..end, both included, a bound left out not limiting;
\* it returns their number, the numbers of on-time and of late ones, the sum
\* of their minutes late, and that sum over the late ones rounded with halves
\* away from zero, 0 without a late one.
C16_StudentStatsOverInclusiveRange ==
    (last.op = "getStudentStats") =>
        LET sel   == Between({i \in 1..Len(arrivals) :
                                 arrivals[i].studentId = last.key[1]},
                             last.key[2], last.key[3])
            late  == {i \in sel : arrivals[i].status = "late"}
        IN /\ last.ret.totalArrivals = Cardinality(sel)
           /\ last.ret.onTime =
                 Cardinality({i \in sel : arrivals[i].status = "on-time"})
           /\ last.ret.tardies = Cardinality(late)
           /\ last.ret.totalMinutesLate = MinutesOver(late)
           /\ IF late = {} THEN last.ret.avgMinutesLate = 0
              ELSE RoundedHalfUp(last.ret.avgMinutesLate, MinutesOver(late),
                                 Cardinality(late))

\* the rollup up to 2024-02-29 of a student late by 30 minutes the day before
\* and by 15 minutes on that day: 45 minutes over 2, 22.5, gives 23
C16_Witness ==
    /\ last.op = "getStudentStats"
    /\ last.key[2] = Null /\ D0229 = last.key[3]
    /\ last.ret.tardies = 2
    /\ last.ret.totalMinutesLate = 45
    /\ last.ret.avgMinutesLate = 23
    /\ \E i \in 1..Len(arrivals) :
          arrivals[i].studentId = last.key[1] /\ arrivals[i].date = D0229

\* C17: getClassStats(classId, start, end) returns, over the arrivals recorded
\* for the class and dated start..end (both included), latenessRate = 100
\* times the late ones over all of them rounded to the nearest integer, 0 when
\* there is none; the rate is an integer of 0..100.
C17_LatenessRateIsARoundedPercentage ==
    (last.op = "getClassStats") =>
        LET sel  == Between({i \in 1..Len(arrivals) :
                                arrivals[i].classId = last.key[1]},
                            last.key[2], last.key[3])
            late == {i \in sel : arrivals[i].status = "late"}
        IN /\ last.ret.totalArrivals = Cardinality(sel)
           /\ last.ret.tardies = Cardinality(late)
           /\ last.ret.latenessRate \in 0..100
           /\ IF sel = {} THEN last.ret.latenessRate = 0
              ELSE NearestInteger(last.ret.latenessRate, 100 * Cardinality(late),
                                  Cardinality(sel))

\* a class with two late arrivals out of three has the rate 67
C17_Witness ==
    /\ last.op = "getClassStats"
    /\ last.ret.totalArrivals = 3
    /\ last.ret.tardies = 2
    /\ last.ret.latenessRate = 67

\* C18: generateDailySheet(classId, date) has one row for each student of the
\* class and no other; a row has arrived = true with the time, minutesLate
\* and status of the student's Arrival of that date exactly when the ledger
\* holds one, and otherwise arrived = false, time = null, minutesLate = 0 and
\* status = "absent".
C18_DailySheetFollowsTheLedger ==
    (last.op = "generateDailySheet" /\ last.ret # Null) =>
        LET rows    == last.ret.students
            ofClass == {i \in 1..Len(students) : students[i].classId = last.key[1]}
        IN /\ Len(rows) = Cardinality(ofClass)
           /\ \A i \in ofClass :
                 Cardinality({r \in 1..Len(rows) : rows[r].id = students[i].id}) = 1
           /\ \A r \in 1..Len(rows) :
                 LET row  == rows[r]
                     held == {i \in 1..Len(arrivals) :
                                 /\ arrivals[i].studentId = row.id
                                 /\ arrivals[i].date = last.key[2]}
                 IN IF held # {}
                    THEN /\ row.arrived
                         /\ \E i \in held :
                               /\ row.time = arrivals[i].time
                               /\ row.minutesLate = arrivals[i].minutesLate
                               /\ row.status = arrivals[i].status
                    ELSE /\ ~row.arrived
                         /\ row.time = Null
                         /\ row.minutesLate = 0
                         /\ row.status = "absent"

\* the lines of a text: what stands between its line breaks
RECURSIVE LinesOf(_)
LinesOf(text) ==
    IF \A k \in 1..Len(text) : text[k] # "\n" THEN <<text>>
    ELSE LET k == CHOOSE j \in 1..Len(text) :
                      text[j] = "\n" /\ \A h \in 1..(j - 1) : text[h] # "\n"
         IN <<SubSeq(text, 1, k - 1)>> \o LinesOf(SubSeq(text, k + 1, Len(text)))

\* the sum of a field over the rows at the indices S
RECURSIVE RowSum(_, _, _)
RowSum(rows, field, S) ==
    IF S = {} THEN 0
    ELSE LET i == CHOOSE x \in S : TRUE
         IN rows[i][field] + RowSum(rows, field, S \ {i})

\* a CSV was made of a report by UI.generateCSVReport
CsvMade == last.op = "ui.generateCSVReport" /\ "csv" \in DOMAIN last.ret

\* C19: the last line of generateCSV(report) is Total, the sum of totalDays,
\* the sum of tardies, the sum of totalMinutesLate and the average, separated
\* by commas; the average is the summed minutes over the summed tardies
\* rounded to the nearest integer, and 0 when no row has a tardy.
C19_TotalsRow ==
    CsvMade =>
        LET rows    == last.ret.report.students
            all     == 1..Len(rows)
            lines   == LinesOf(last.ret.csv)
            totals  == lines[Len(lines)]
            days    == RowSum(rows, "totalDays", all)
            tardies == RowSum(rows, "tardies", all)
            minutes == RowSum(rows, "totalMinutesLate", all)
        IN /\ Len(totals) = 8
           /\ SubSeq(totals, 1, 7)
                 = <<"Total,", ToString(days), ",", ToString(tardies), ",",
                     ToString(minutes), ",">>
           /\ IF tardies = 0 THEN totals[8] = "0"
              ELSE \E q \in 0..minutes :
                      /\ totals[8] = ToString(q)
                      /\ NearestInteger(q, minutes, tardies)

\* the CSV of a report whose only arrival is on time: one day, no tardy, and
\* the average 0
C19_Witness ==
    /\ CsvMade
    /\ LET lines == LinesOf(last.ret.csv)
       IN lines[Len(lines)] = <<"Total,", "1", ",", "0", ",", "0", ",", "0">>

\* C20: for a report of n rows generateCSV returns n + 5 lines: the title, an
\* empty line, the column headers, a line name,totalDays,tardies,
\* totalMinutesLate,avgMinutesLate for each row in the order of the report,
\* an empty line and the totals.
C20_CsvLayout ==
    CsvMade =>
        LET report == last.ret.report
            rows   == report.students
            n      == Len(rows)
            lines  == LinesOf(last.ret.csv)
        IN /\ Len(lines) = n + 5
           /\ lines[1] = <<"Rapport de retards - ", report.className, " - ",
                           report.monthName, " ", ToString(report.year)>>
           /\ lines[2] = <<>>
           /\ lines[3] = <<"Nom,Délais,Retards,Minutes de retard, Moyenne">>
           /\ \A r \in 1..n :
                 lines[3 + r] =
                     rows[r].name
                     \o <<",", ToString(rows[r].totalDays),
                          ",", ToString(rows[r].tardies),
                          ",", ToString(rows[r].totalMinutesLate),
                          ",", ToString(rows[r].avgMinutesLate)>>
           /\ lines[n + 4] = <<>>
           /\ lines[n + 5][1] = "Total,"

\* the CSV of a report of three rows, the first one late twice
C20_Witness ==
    /\ CsvMade
    /\ Len(last.ret.report.students) = 3
    /\ last.ret.report.students[1].tardies = 2
    /\ Len(LinesOf(last.ret.csv)) = 8

(***************************************************************************)
(* Export and import                                                       *)
(***************************************************************************)
\* the text handed to the importJSON that has just returned
ImportedText == last.key[1]

\* C21: importJSON with a text that is not JSON returns success:false with
\* an error message, without throwing, and changes no key of the store and
\* none of the in-memory collections.
C21_UnparseableImportChangesNothing ==
    [][(last'.op = "importJSON" /\ ~("json" \in DOMAIN last'.key[1]))
       => /\ last'.ret.success = FALSE
          /\ "error" \in DOMAIN last'.ret
          /\ store' = store
          /\ <<classes', students', arrivals'>> = <<classes, students, arrivals>>]_vars

\* a text that is not JSON was refused while the store holds an Arrival made
\* in this session
C21_Witness ==
    /\ last.op = "importJSON" /\ ~("json" \in DOMAIN ImportedText)
    /\ ~last.ret.success
    /\ Len(store.arrivals) = 4

C23_ImportRestoresMemory ==
    (last.op = "importJSON" /\ last.ret.success) =>
        LET data == ImportedText.json
        IN /\ classes = data.classes
           /\ students = data.students
           /\ arrivals = data.arrivals
           /\ \A key \in BackupKeys :
                 ArrivalTracker_hasArrived(arrivals, key[1], key[2])
                 = ArrivalTracker_hasArrived(data.arrivals, key[1], key[2])

(***************************************************************************)
(* Startup, rejected writes, the rejection result, the ledger's steps      *)
(***************************************************************************)
\* the calls that mutate a collection of the core, direct or from the UI
MutatingOps ==
    {"add", "update", "delete", "markArrival", "removeArrival",
     "ui.addClass", "ui.toggleDay", "ui.updateSchedule"}

\* the order of App.init: each phase with the call that leaves it
StartupOrder ==
    {<<"constructed", "classManager.load", "classesLoaded">>,
     <<"classesLoaded", "studentManager.load", "studentsLoaded">>,
     <<"studentsLoaded", "arrivalTracker.load", "arrivalsLoaded">>,
     <<"arrivalsLoaded", "ui.init", "ready">>}

\* C24: the loads of classes, students and arrivals run in that order, the UI
\* is initialised after the third, and no mutating operation executes before
\* the UI is initialised.
C24_NoMutationBeforeTheLoads ==
    [][/\ (last'.op \in MutatingOps) => (phase = "ready" /\ phase' = "ready")
       /\ (phase' # phase) => (<<phase, last'.op, phase'>> \in StartupOrder)]_vars

\* a class was added and an Arrival marked for it
C24_Witness ==
    /\ phase = "ready"
    /\ last.op = "markArrival" /\ last.ret.success
    /\ ClassManager_getById(classes, last.ret.arrival.classId) # Null

\* the calls of the ledger that save
LedgerOps == {"markArrival", "removeArrival"}

C26_RejectionHasExistingRecord ==
    (last.op = "markArrival" /\ ~last.ret.success) =>
        /\ DOMAIN last.ret = {"success", "message", "existingRecord"}
        /\ last.ret.existingRecord \in {arrivals[i] : i \in 1..Len(arrivals)}

\* C26 amended: the rejection of a duplicate markArrival is
\* {success:false, message, arrival}: the stored Arrival of the pair is
\* carried under the field arrival.
C26_RejectionCarriesTheArrival ==
    (last.op = "markArrival" /\ ~last.ret.success) =>
        /\ DOMAIN last.ret = {"success", "message", "arrival"}
        /\ last.ret.message = "Already marked"
        /\ last.ret.arrival \in {arrivals[i] : i \in 1..Len(arrivals)}
        /\ <<last.ret.arrival.studentId, last.ret.arrival.date>> = last.key

\* a markArrival at 12:45 was rejected carrying the Arrival stored at 12:30
C26_Witness ==
    /\ last.op = "markArrival" /\ ~last.ret.success
    /\ T1230 = last.ret.arrival.time

\* C30: from the end of startup on, an Arrival present before and after a
\* step has the same fields, and a step changes the ledger only by appending
\* one record (markArrival) or by removing one record (removeArrival).
C30_NoArrivalUpdatedInPlace ==
    [][(phase = "ready")
       => /\ \A i \in 1..Len(arrivals), j \in 1..Len(arrivals') :
                (arrivals[i].id = arrivals'[j].id) => (arrivals[i] = arrivals'[j])
          /\ \/ arrivals' = arrivals
             \/ /\ last'.op = "markArrival"
                /\ Len(arrivals') = Len(arrivals) + 1
                /\ SubSeq(arrivals', 1, Len(arrivals)) = arrivals
             \/ /\ last'.op = "removeArrival"
                /\ \E i \in 1..Len(arrivals) :
                      arrivals' = SubSeq(arrivals, 1, i - 1)
                                  \o SubSeq(arrivals, i + 1, Len(arrivals))]_vars

\* a second Arrival was appended after a late one, which is still the first
\* record of the ledger
C30_Witness ==
    /\ last.op = "markArrival" /\ last.ret.success
    /\ Len(arrivals) = 2
    /\ arrivals[1].status = "late"
    /\ arrivals[2] = last.ret.arrival

(***************************************************************************)
(* The rows of the reports                                                 *)
(***************************************************************************)
\* the reports that list the students of a class
RowReports == {"generateMonthlyReport", "generateDailySheet"}

\* C28: the student rows of a monthly report and of a daily sheet are the
\* students of the class, each once, in non-decreasing order of name under
\* localeCompare, and making them leaves the directory in its order.
C28_RowsSortedByName ==
    [][(last'.op \in RowReports /\ last'.ret # Null)
       => LET rows    == last'.ret.students
              members == {k \in 1..Len(students) :
                             students[k].classId = last'.key[1]}
          IN /\ Len(rows) = Cardinality(members)
             /\ {rows[i].id : i \in 1..Len(rows)}
                = {students[k].id : k \in members}
             /\ \A i \in 1..Len(rows) :
                   \E k \in members : /\ students[k].id = rows[i].id
                                      /\ students[k].name = rows[i].name
             /\ \A i, j \in 1..Len(rows) :
                   (i < j) => LocaleCompare(rows[i].name, rows[j].name) <= 0
             /\ students' = students]_vars

\* a daily sheet lists Amal, Ben, Zara while the directory holds Zara first
\* and Ben last
C28_Witness ==
    /\ last.op = "generateDailySheet" /\ last.ret # Null
    /\ Len(last.ret.students) = 3
    /\ Amal = last.ret.students[1].name
    /\ Zara = last.ret.students[3].name
    /\ Zara = students[1].name
    /\ Amal = students[2].name

(***************************************************************************)
(* Unknown classes and the names of the directory                          *)
(***************************************************************************)
\* C27: generateMonthlyReport and generateDailySheet return null for a class
\* id the registry does not hold, and the report buttons of the UI, which
\* hand the result on, do not throw on it.
C27_NullReportIsChecked ==
    /\ (last.op \in RowReports /\ ClassManager_getById(classes, last.key[1]) = Null)
          => last.ret = Null
    /\ (last.op = "ui.generateCSVReport") => ~("threw" \in DOMAIN last.ret)

\* C29: every Student of the directory has a name that is trimmed and is
\* not empty.
C29_NamesTrimmedAndNonEmpty ==
    \A k \in 1..Len(students) :
        /\ students[k].name # <<>>
        /\ Head(students[k].name) \notin WhiteSpace
        /\ students[k].name[Len(students[k].name)] \notin WhiteSpace

(***************************************************************************)
(* The verdict's range, the weekday, the bundle, the rollups' partition    *)
(***************************************************************************)
\* C31: every Arrival of the ledger has a whole number of minutesLate that
\* is not negative and a status that is "on-time" or "late", and it is "late"
\* exactly when minutesLate is positive.
C31_VerdictRange ==
    \A i \in 1..Len(arrivals) :
        /\ arrivals[i].minutesLate \in Nat
        /\ arrivals[i].status \in {"on-time", "late"}
        /\ (arrivals[i].status = "late") <=> (arrivals[i].minutesLate > 0)

\* an Arrival was created on time for a time before the start of the entry
\* markArrival classified it against
C31_Witness ==
    /\ last.op = "markArrival" /\ last.ret.success
    /\ last.ret.arrival.minutesLate = 0
    /\ LET a     == last.ret.arrival
           entry == ClassManager_getScheduleForDay(
                        classes, a.classId, GetDay(DateParse(a.date), tz))
       IN Scheduled(entry) /\ MinutesOf(a.time) < MinutesOf(entry.startTime)

\* C32: the dayOfWeek markArrival computes from its date is the weekday on
\* which that calendar date falls.
C32_WeekdayOfTheCalendarDate ==
    (last.op = "markArrival" /\ last.ret.success) =>
        dayNames[GetDay(DateParse(last.key[2]), tz) + 1] = WeekdayOf(last.key[2])

\* C33: started on the same store, the bundle's ClassManager holds after its
\* load what the module's ClassManager holds after its load.
C33_BundleLoadsTheSameClasses ==
    (last.op = "classManager.load") => (classes = Bundle_ClassManager_load(store))

\* the operations that return a monthly report
MonthlyOps == {"generateMonthlyReport", "ui.generateCSVReport"}

\* C37: getStudentStats and getClassStats return onTime + tardies =
\* totalArrivals, and every row of a monthly report has onTime + tardies =
\* totalDays = the number of entries of its detail list.
C37_RollupsPartition ==
    /\ (last.op \in {"getStudentStats", "getClassStats"})
          => last.ret.onTime + last.ret.tardies = last.ret.totalArrivals
    /\ (last.op \in MonthlyOps /\ last.ret # Null /\ ~("threw" \in DOMAIN last.ret))
          => LET report == IF last.op = "ui.generateCSVReport" THEN last.ret.report
                           ELSE last.ret
             IN \A i \in 1..Len(report.students) :
                   LET row == report.students[i]
                   IN /\ row.onTime + row.tardies = row.totalDays
                      /\ row.totalDays = Len(row.arrivals)

\* the rollup of a student with a late and an on-time arrival was returned
C37_Witness ==
    /\ last.op = "getStudentStats"
    /\ last.ret.tardies >= 1 /\ last.ret.onTime >= 1
    /\ Len(arrivals) = 4

\* C34: after startup, with every store write succeeding, the persisted value
\* of "classes", "students" and "arrivals" (read with default []) equals the
\* corresponding in-memory collection.
C34_StoreMirrorsMemory ==
    (phase = "ready") =>
        /\ Storage_get(store, "classes", <<>>) = classes
        /\ Storage_get(store, "students", <<>>) = students
        /\ Storage_get(store, "arrivals", <<>>) = arrivals

\* a student was deleted while a class and an arrival were held
C34_Witness ==
    /\ last.op = "ui.deleteStudent" /\ last.ret
    /\ Len(classes) > 0 /\ Len(arrivals) > 0 /\ Len(students) = 0
    /\ Has(store, "students")

\* the (studentId, date) pairs of a ledger
PairsOf(arr) == {<<arr[k].studentId, arr[k].date>> : k \in 1..Len(arr)}

\* the Arrivals of a ledger outside one (studentId, date) pair, in order
OutsidePair(arr, key) ==
    SelectSeq(arr, LAMBDA a : <<a.studentId, a.date>> # key)

\* C35: toggleArrival(studentId) creates exactly one Arrival, for the current
\* class, when (studentId, currentDate) has none and removes it when there is
\* one; two consecutive toggles of the same pair leave the set of pairs as it
\* was, and no Arrival of another pair is affected.
C35_ToggleFlipsOnePair ==
    [][(last'.op = "ui.toggleArrival") =>
          LET key == last'.key
              was == CountKey(arrivals, key[1], key[2])
              is  == CountKey(arrivals', key[1], key[2])
          IN /\ OutsidePair(arrivals', key) = OutsidePair(arrivals, key)
             /\ key[2] = currentDate
             /\ (was = 0) =>
                   /\ is = 1
                   /\ ArrivalTracker_hasArrived(arrivals', key[1], key[2]).classId
                         = currentClassId
             /\ (was > 0) => (is = 0)
             /\ (last.op = "ui.toggleArrival" /\ last.key = key)
                   => (PairsOf(arrivals') = last.before)]_vars

\* a card was clicked twice in a row, marking and unmarking the student, while
\* the ledger held the student's Arrival of another date
C35_Witness ==
    /\ last.op = "ui.toggleArrival"
    /\ last.again /\ last.existed
    /\ PairsOf(arrivals) = last.pairsThen
    /\ \E p \in PairsOf(arrivals) : p # last.key

\* the students of the selected class that have an Arrival on the current date
PresentStudents ==
    {k \in 1..Len(students) :
        /\ students[k].classId = currentClassId
        /\ ArrivalTracker_hasArrived(arrivals, students[k].id, currentDate) # Null}

\* C36: the Present count of the tracker view is the number of the selected
\* class's current students that have an Arrival on the current date, and the
\* Absent count is never negative.
C36_CountsMatchTheCards ==
    (last.op = "ui.renderTrackerView") =>
        /\ last.ret.present = Cardinality(PresentStudents)
        /\ last.ret.absent >= 0

\* the position of the current class in the registry (0: none)
CurrentIndex ==
    FirstIndex({k \in 1..Len(classes) : classes[k].id = currentClassId})

\* C38: toggleDay(day) and updateSchedule(day, field, value) change only the
\* named weekday's entry of the current class's schedule (the other days, the
\* class's other fields and every other class stay as they were), and
\* toggleDay applied twice returns the day to its original enabled flag.
C38_OnlyTheNamedDayChanges ==
    [][(last'.op \in {"ui.toggleDay", "ui.updateSchedule"}) =>
          LET day == last'.key[1]
              c   == CurrentIndex
          IN /\ c # 0
             /\ Len(classes') = Len(classes)
             /\ \A k \in 1..Len(classes) : k # c => classes'[k] = classes[k]
             /\ DOMAIN classes'[c] = DOMAIN classes[c]
             /\ \A f \in DOMAIN classes[c] :
                   f # "schedule" => classes'[c][f] = classes[c][f]
             /\ (DOMAIN classes'[c].schedule) \ {day}
                   = (DOMAIN classes[c].schedule) \ {day}
             /\ \A d \in (DOMAIN classes[c].schedule) \ {day} :
                   classes'[c].schedule[d] = classes[c].schedule[d]
             /\ (last'.op = "ui.toggleDay") =>
                   UI_dayEnabled(classes'[c], day) = ~UI_dayEnabled(classes[c], day)
             /\ (last'.op = "ui.toggleDay" /\ last.op = "ui.toggleDay"
                    /\ last.key = last'.key)
                   => (UI_dayEnabled(classes'[c], day) = last.was)]_vars

\* a day of the second class was switched on and off again while the first
\* class kept its stored schedule
C38_Witness ==
    /\ last.op = "ui.toggleDay" /\ last.twice
    /\ currentClassId = ClsB
    /\ last.key = <<"tuesday">>
    /\ ~UI_dayEnabled(classes[2], "tuesday")
    /\ classes[2].schedule # CustomSchedule
    /\ classes[1] = StoredClasses[1]

====
